---- MODULE Spec2Model ----
(***************************************************************************)
(* LinkUp word-chain game: the link validation and scoring pipeline.       *)
(*                                                                         *)
(*   src/lib/datamuse.ts   data source client with its response cache,     *)
(*                         relation resolver, creativity scorer and        *)
(*                         validateLink                                    *)
(*   src/unnamed/part_001  game store and calculateScore                   *)
(*                                                                         *)
(* Numbers of the program are IEEE doubles.  They are modelled as exact    *)
(* fractions [n, d] with d > 0.  Every value that occurs here is either    *)
(* a quotient of two bounded integers compared with a two-digit decimal,   *)
(* or a multiple of 0.5, so the double computation and the exact one       *)
(* order the values the same way.                                          *)
(***************************************************************************)
EXTENDS Integers, Sequences, FiniteSets, TLC

VARIABLES
    \* validateLink(previousWord, inputWord, usedWords): the arguments
    previousWord, inputWord, usedWords,
    \* the data source: the response body it gives to each request URL
    db,
    \* the module's response cache (a Map from URL to {data, timestamp})
    cache,
    \* Date.now()
    now,
    \* where the validateLink call stands: "call" (not yet started), "fetch"
    \* (suspended in cachedFetch on the request `pending`), "done" (returned)
    pc,
    \* the request in flight: its URL, the `now` of its cachedFetch call and
    \* the step of validateLink that awaits it (0: verifyWord, i: the i-th
    \* relation of RELATION_PRIORITY)
    pending,
    \* wordData of validateLink
    wordData,
    \* every request URL the call has sent to the data source, in order
    requests,
    \* how each of these requests ended, in order: its URL and whether it
    \* was answered (ok) or failed
    responses,
    \* the value validateLink returned
    result,
    \* calculateCreativityStars(heat, frequency): arguments and return value
    heat, frequency, stars,
    \* calculateScore(chainLength, penaltySteps, totalStars): arguments and return value
    chainLength, penaltySteps, totalStars, score,
    \* the game store (useGameStore): mode, startWord, endWord, dailySeed,
    \* chain, status, penaltySteps, lastFailedAttempt, endlessGamesPlayed
    store,
    \* localStorage.getItem("linkup_day"): <<>> for null, else <<the day key>>
    linkupDay,
    \* the page component: its state isValidating, error and value, the word
    \* the handleSubmit in flight has captured, and whether the effect that
    \* runs loadGame(mode) after a change of mode is due
    page,
    \* history: for each link of store.chain, the previousWord of the
    \* validateLink call whose result addLink appended
    provenance,
    \* whether getMostCreativeLink has been called, and the value it returned:
    \* <<>> for null, else <<link>>
    bestLink,
    \* history of a validateLink call that is repeated on the same arguments:
    \* the cache before the first call and the results of the earlier calls
    returned,
    \* the cachedFetch calls of several validations: for each its URL, where
    \* it stands and what it returned
    lookups

callVars == <<previousWord, inputWord, usedWords, db, cache, now, pc, pending,
              wordData, requests, responses, result>>
starVars == <<heat, frequency, stars>>
scoreVars == <<chainLength, penaltySteps, totalStars, score>>
gameVars == <<store, linkupDay, page, provenance, bestLink>>
vars == <<previousWord, inputWord, usedWords, db, cache, now, pc, pending,
          wordData, requests, responses, result,
          heat, frequency, stars, chainLength, penaltySteps, totalStars, score,
          store, linkupDay, page, provenance, bestLink, returned, lookups>>

-----------------------------------------------------------------------------
(* Numbers *)

Rat(n, d) == [n |-> n, d |-> d]
Num(i) == Rat(i, 1)

RatLT(a, b) == a.n * b.d < b.n * a.d
RatLE(a, b) == a.n * b.d <= b.n * a.d
RatGT(a, b) == RatLT(b, a)
RatGE(a, b) == RatLE(b, a)
RatEq(a, b) == a.n * b.d = b.n * a.d

RatMul(a, b) == Rat(a.n * b.n, a.d * b.d)
RatSub(a, b) == Rat(a.n * b.d - b.n * a.d, a.d * b.d)
RatMax(a, b) == IF RatLT(a, b) THEN b ELSE a

\* a / b for b > 0
RatDiv(a, b) == Rat(a.n * b.d, a.d * b.n)

\* Math.round: the nearest integer, halves towards +infinity
MathRound(a) == (2 * a.n + a.d) \div (2 * a.d)

NotRated == 0
NoScore == [steps |-> 0 - 1]

-----------------------------------------------------------------------------
(* Creativity scorer *)

\* the literals 0.66, 0.40 and 0.01 of calculateCreativityStars
ObviousHeat == Rat(66, 100)
DecentHeat == Rat(40, 100)
RareFrequency == Rat(1, 100)

calculateCreativityStars_ObviousAtThreshold(h, f) ==
    LET s == IF RatGE(h, ObviousHeat) THEN 1
             ELSE IF RatGE(h, DecentHeat) THEN 2
             ELSE 3
    IN  IF RatLT(f, RareFrequency) /\ s = 3 THEN 2 ELSE s

calculateCreativityStars_DecentAboveThreshold(h, f) ==
    LET s == IF RatGT(h, ObviousHeat) THEN 1
             ELSE IF RatGT(h, DecentHeat) THEN 2
             ELSE 3
    IN  IF RatLT(f, RareFrequency) /\ s = 3 THEN 2 ELSE s

calculateCreativityStars_ClampAtThreshold(h, f) ==
    LET s == IF RatGT(h, ObviousHeat) THEN 1
             ELSE IF RatGE(h, DecentHeat) THEN 2
             ELSE 3
    IN  IF RatLE(f, RareFrequency) /\ s = 3 THEN 2 ELSE s

calculateCreativityStars_UnratedAtZero(h, f) ==
    LET s == IF RatGT(h, ObviousHeat) THEN 1
             ELSE IF RatGE(h, DecentHeat) THEN 2
             ELSE 3
    IN  IF h.n = 0 THEN 0
        ELSE IF RatLT(f, RareFrequency) /\ s = 3 THEN 2 ELSE s

calculateCreativityStars(h, f) ==
    LET s == IF RatGT(h, ObviousHeat) THEN 1
             ELSE IF RatGE(h, DecentHeat) THEN 2
             ELSE 3
    IN  IF RatLT(f, RareFrequency) /\ s = 3 THEN 2 ELSE s

-----------------------------------------------------------------------------
(* Session scorer *)

HalfStar == Rat(5, 10)

FloorAtZero_NoFloor(x) == x

\* Math.max(0, x)
FloorAtZero(x) == RatMax(Num(0), x)

calculateScore_PenaltyDropped(len, penalty, total) ==
    LET steps == len
        effectiveSteps == steps
        starBonus == RatMul(Num(total), HalfStar)
        finalScore == FloorAtZero(RatSub(Num(effectiveSteps), starBonus))
    IN  [steps |-> steps,
         effectiveSteps |-> effectiveSteps,
         starBonus |-> starBonus,
         finalScore |-> RatDiv(Num(MathRound(RatMul(finalScore, Num(10)))), Num(10))]

calculateScore(len, penalty, total) ==
    LET steps == len
        effectiveSteps == steps + penalty
        starBonus == RatMul(Num(total), HalfStar)
        finalScore == FloorAtZero(RatSub(Num(effectiveSteps), starBonus))
    IN  [steps |-> steps,
         effectiveSteps |-> effectiveSteps,
         starBonus |-> starBonus,
         finalScore |-> RatDiv(Num(MathRound(RatMul(finalScore, Num(10)))), Num(10))]

-----------------------------------------------------------------------------
(* Words: strings are sequences of characters *)

\* String.prototype.toLowerCase, character by character
LowerChar(c) == IF c = "G" THEN "g" ELSE IF c = "O" THEN "o" ELSE c
toLowerCase(w) == [i \in 1..Len(w) |-> LowerChar(w[i])]

\* String.prototype.trim
RECURSIVE trimStart(_)
trimStart(w) == IF w # <<>> /\ Head(w) = " " THEN trimStart(Tail(w)) ELSE w
RECURSIVE trimEnd(_)
trimEnd(w) ==
    IF w # <<>> /\ w[Len(w)] = " " THEN trimEnd(SubSeq(w, 1, Len(w) - 1)) ELSE w
trim(w) == trimEnd(trimStart(w))

Normalize_NoTrim(w) == toLowerCase(w)

\* word.toLowerCase().trim()
Normalize(w) == trim(toLowerCase(w))

HUB_WORDS_WithoutGo == <<
    <<"t", "h", "i", "n", "g">>, <<"g", "o", "o", "d">>, <<"m", "a", "n">>,
    <<"t", "i", "m", "e">>, <<"w", "o", "r", "l", "d">>, <<"g", "e", "t">> >>

HUB_WORDS == <<
    <<"t", "h", "i", "n", "g">>, <<"g", "o", "o", "d">>, <<"m", "a", "n">>,
    <<"t", "i", "m", "e">>, <<"w", "o", "r", "l", "d">>, <<"g", "o">>,
    <<"g", "e", "t">> >>

includes(list, x) == \E i \in 1..Len(list) : list[i] = x

isHubWord(word) == includes(HUB_WORDS, Normalize(word))

-----------------------------------------------------------------------------
(* Data source client *)

RELATION_PRIORITY_TriggerFirst ==
    <<"rel_trg", "rel_syn", "rel_jja", "rel_jjb", "rel_bga", "rel_bgb", "rel_cns">>

RELATION_PRIORITY ==
    <<"rel_syn", "rel_trg", "rel_jja", "rel_jjb", "rel_bga", "rel_bgb", "rel_cns">>

RELATION_LABELS ==
    [k \in {"rel_syn", "rel_trg", "rel_jja", "rel_jjb", "rel_bga", "rel_bgb", "rel_cns"} |->
        CASE k = "rel_syn" -> "Synonym"
          [] k = "rel_trg" -> "Association"
          [] k \in {"rel_jja", "rel_jjb"} -> "Property"
          [] k \in {"rel_bga", "rel_bgb"} -> "Phrase"
          [] k = "rel_cns" -> "Slant Link"]

CACHE_TTL == 1000 * 60 * 30

\* a DatamuseWord; tags is <<>> when the field is absent, else <<list>>
DatamuseWord(w, sc, tg) == [word |-> w, score |-> sc, tags |-> tg]

\* the request URLs: the endpoint and the encoded word determine the URL
\* and are determined by it
verifyUrl(word) == <<"sp", Normalize(word)>>
relatedUrl_WordDropped(word, relationType) == <<relationType, <<>>>>
relatedUrl(word, relationType) == <<relationType, Normalize(word)>>

CacheHit_AtTimeToLive(c, url, t) == url \in DOMAIN c /\ t - c[url].timestamp <= CACHE_TTL

\* cache.get(url) is defined and younger than CACHE_TTL at time t
CacheHit(c, url, t) == url \in DOMAIN c /\ t - c[url].timestamp < CACHE_TTL

CacheSet_EmptyData(c, url, data, t) == (url :> [data |-> <<>>, timestamp |-> t]) @@ c

\* cache.set(url, {data, timestamp})
CacheSet(c, url, data, t) == (url :> [data |-> data, timestamp |-> t]) @@ c

OnFetchError_Rethrow == [threw |-> TRUE, data |-> <<>>]

\* the catch block of cachedFetch: the error is logged and [] is returned
OnFetchError == [threw |-> FALSE, data |-> <<>>]

\* Array.prototype.find for the predicate r.word.toLowerCase() === w:
\* <<>> for undefined, else <<the first such element>>
RECURSIVE findWord(_, _)
findWord(list, w) ==
    IF list = <<>> THEN <<>>
    ELSE IF toLowerCase(Head(list).word) = w THEN <<Head(list)>>
    ELSE findWord(Tail(list), w)

\* verifyWord after its cachedFetch: <<>> for null
verifyWordMatch(results, word) == findWord(results, Normalize(word))

\* parseFloat of the text after "f:"; a text is [numeric, value]
parseFloat(text) == [isNaN |-> ~text.numeric, value |-> text.value]

RECURSIVE findFrequencyTag(_)
findFrequencyTag(tags) ==
    IF tags = <<>> THEN <<>>
    ELSE IF Head(tags).prefix = "f:" THEN <<Head(tags)>>
    ELSE findFrequencyTag(Tail(tags))

getWordFrequency_MissingIsCommon(word) ==
    IF word.tags = <<>> THEN Num(1)
    ELSE LET freqTag == findFrequencyTag(word.tags[1])
         IN  IF freqTag = <<>> THEN Num(1)
             ELSE LET freq == parseFloat(freqTag[1].rest)
                  IN  IF freq.isNaN THEN Num(1) ELSE freq.value

getWordFrequency(word) ==
    IF word.tags = <<>> THEN Num(0)
    ELSE LET freqTag == findFrequencyTag(word.tags[1])
         IN  IF freqTag = <<>> THEN Num(0)
             ELSE LET freq == parseFloat(freqTag[1].rest)
                  IN  IF freq.isNaN THEN Num(0) ELSE freq.value

findWordInRelation_TopIsMatch(related, targetWord) ==
    IF Len(related) = 0 THEN <<>>
    ELSE LET match == findWord(related, Normalize(targetWord))
         IN  IF match # <<>>
             THEN <<[word |-> match[1],
                     topScore |-> IF match[1].score = 0 THEN 1 ELSE match[1].score]>>
             ELSE <<>>

\* findWordInRelation after its getRelatedWords: <<>> for null
findWordInRelation(related, targetWord) ==
    IF Len(related) = 0 THEN <<>>
    ELSE LET topScore == IF related[1].score = 0 THEN 1 ELSE related[1].score
             match == findWord(related, Normalize(targetWord))
         IN  IF match # <<>>
             THEN <<[word |-> match[1], topScore |-> topScore]>>
             ELSE <<>>

-----------------------------------------------------------------------------
(* Link validator *)

NoPending == [url |-> <<>>, now |-> 0, step |-> 0 - 1]
NoResult == [valid |-> FALSE, word |-> <<>>, reason |-> "pending", message |-> <<>>]

\* a rejected promise: validateLink raised instead of returning
Thrown == [valid |-> FALSE, word |-> <<>>, reason |-> "exception", message |-> <<>>]

Reject(word, reason, message) ==
    [valid |-> FALSE, word |-> word, reason |-> reason, message |-> message]

isUsed_NoLowerCase(used, normalizedInput) == includes(used, normalizedInput)

\* usedWords.map(w => w.toLowerCase()).includes(normalizedInput)
isUsed(used, normalizedInput) ==
    includes([i \in 1..Len(used) |-> toLowerCase(used[i])], normalizedInput)

\* the two quick checks of validateLink: the reason of the rejection, or "none"
QuickCheck(prev, inp, used) ==
    LET normalizedInput == Normalize(inp)
        normalizedPrevious == Normalize(prev)
    IN  IF normalizedInput = normalizedPrevious THEN "same_word"
        ELSE IF isUsed(used, normalizedInput) THEN "already_used"
        ELSE "none"

QuickReject(inp, reason) ==
    IF reason = "same_word"
    THEN Reject(inp, "same_word", <<"Can't use the same word twice in a row">>)
    ELSE Reject(inp, "already_used", <<"This word is already in your chain">>)

Accept_InputWord(wd, relationType, found, normalizedInput) ==
    LET h == Rat(found.word.score, found.topScore)
        f == getWordFrequency(wd)
    IN  [valid |-> TRUE,
         word |-> normalizedInput,
         relationType |-> relationType,
         relationLabel |-> RELATION_LABELS[relationType],
         heat |-> h,
         creativityStars |-> calculateCreativityStars(h, f),
         isHubWord |-> isHubWord(normalizedInput),
         frequency |-> f]

\* the accept value built at the end of validateLink
Accept(wd, relationType, found, normalizedInput) ==
    LET h == Rat(found.word.score, found.topScore)
        f == getWordFrequency(wd)
    IN  [valid |-> TRUE,
         word |-> wd.word,
         relationType |-> relationType,
         relationLabel |-> RELATION_LABELS[relationType],
         heat |-> h,
         creativityStars |-> calculateCreativityStars(h, f),
         isHubWord |-> isHubWord(normalizedInput),
         frequency |-> f]

\* how a run of validateLink stands when it suspends or returns
Returned(wd, res) ==
    [pc |-> "done", pending |-> NoPending, wordData |-> wd, result |-> res, sent |-> <<>>]
Suspended(step, url, wd, t) ==
    [pc |-> "fetch", pending |-> [url |-> url, now |-> t, step |-> step],
     wordData |-> wd, result |-> NoResult, sent |-> <<url>>]

\* the URL of step 0 (verifyWord(normalizedInput)) and of step i
\* (getRelatedWords(normalizedPrevious, RELATION_PRIORITY[i]))
StepUrl(step, prev, inp) ==
    IF step = 0 THEN verifyUrl(Normalize(inp))
    ELSE relatedUrl(Normalize(prev), RELATION_PRIORITY[step])

\* validateLink from the cachedFetch call of `step` on (Run) and from the
\* value that call returned on (Resume), up to the next request that has
\* to wait for the data source, or to the return
RECURSIVE Run(_, _, _, _, _, _)
RECURSIVE Resume(_, _, _, _, _, _, _)
Run(step, wd, c, t, prev, inp) ==
    IF step > Len(RELATION_PRIORITY)
    THEN Returned(wd, Reject(inp, "no_connection",
                             <<"No connection found to ", Normalize(prev)>>))
    ELSE LET url == StepUrl(step, prev, inp)
         IN  IF CacheHit(c, url, t)
             THEN Resume(step, c[url].data, wd, c, t, prev, inp)
             ELSE Suspended(step, url, wd, t)

Resume_VerdictAfterRelation(step, data, wd, c, t, prev, inp) ==
    IF step = 0
    THEN Run(1, verifyWordMatch(data, Normalize(inp)), c, t, prev, inp)
    ELSE IF wd = <<>>
    THEN Returned(wd, Reject(inp, "not_a_word", <<"Not a valid word">>))
    ELSE LET found == findWordInRelation(data, Normalize(inp))
         IN  IF found # <<>>
             THEN Returned(wd, Accept(wd[1], RELATION_PRIORITY[step], found[1],
                                      Normalize(inp)))
             ELSE Run(step + 1, wd, c, t, prev, inp)

Resume_KeepsLooking(step, data, wd, c, t, prev, inp) ==
    IF step = 0
    THEN LET match == verifyWordMatch(data, Normalize(inp))
         IN  IF match = <<>>
             THEN Returned(match, Reject(inp, "not_a_word", <<"Not a valid word">>))
             ELSE Run(1, match, c, t, prev, inp)
    ELSE LET found == findWordInRelation(data, Normalize(inp))
         IN  IF found # <<>> /\ step = Len(RELATION_PRIORITY)
             THEN Returned(wd, Accept(wd[1], RELATION_PRIORITY[step], found[1],
                                      Normalize(inp)))
             ELSE Run(step + 1, wd, c, t, prev, inp)

Resume_EmptyListEnds(step, data, wd, c, t, prev, inp) ==
    IF step = 0
    THEN LET match == verifyWordMatch(data, Normalize(inp))
         IN  IF match = <<>>
             THEN Returned(match, Reject(inp, "not_a_word", <<"Not a valid word">>))
             ELSE Run(1, match, c, t, prev, inp)
    ELSE IF Len(data) = 0
    THEN Returned(wd, Reject(inp, "no_connection",
                             <<"No connection found to ", Normalize(prev)>>))
    ELSE LET found == findWordInRelation(data, Normalize(inp))
         IN  IF found # <<>>
             THEN Returned(wd, Accept(wd[1], RELATION_PRIORITY[step], found[1],
                                      Normalize(inp)))
             ELSE Run(step + 1, wd, c, t, prev, inp)

Resume(step, data, wd, c, t, prev, inp) ==
    IF step = 0
    THEN LET match == verifyWordMatch(data, Normalize(inp))
         IN  IF match = <<>>
             THEN Returned(match, Reject(inp, "not_a_word", <<"Not a valid word">>))
             ELSE Run(1, match, c, t, prev, inp)
    ELSE LET found == findWordInRelation(data, Normalize(inp))
         IN  IF found # <<>>
             THEN Returned(wd, Accept(wd[1], RELATION_PRIORITY[step], found[1],
                                      Normalize(inp)))
             ELSE Run(step + 1, wd, c, t, prev, inp)

\* the state of the call after `o`
Stand(o) ==
    /\ pc' = o.pc
    /\ pending' = o.pending
    /\ wordData' = o.wordData
    /\ result' = o.result
    /\ requests' = requests \o o.sent

Start_VerifyFirst(prev, inp, used, c, t) ==
    LET reason == QuickCheck(prev, inp, used)
        verify == Run(0, <<>>, c, t, prev, inp)
    IN  IF reason # "none"
        THEN [Returned(<<>>, QuickReject(inp, reason)) EXCEPT !.sent = verify.sent]
        ELSE verify

\* validateLink from its first line to its first request or to its return
Start(prev, inp, used, c, t) ==
    LET reason == QuickCheck(prev, inp, used)
    IN  IF reason # "none"
        THEN Returned(<<>>, QuickReject(inp, reason))
        ELSE Run(0, <<>>, c, t, prev, inp)

\* validateLink is called and runs to its first request or to its return
Validate ==
    /\ pc = "call"
    /\ Stand(Start(previousWord, inputWord, usedWords, cache, now))
    /\ UNCHANGED <<previousWord, inputWord, usedWords, db, cache, now, responses,
                   starVars, scoreVars, gameVars, returned, lookups>>

FetchOk_PushesUsedWord ==
    /\ pc = "fetch"
    /\ LET data == db[pending.url]
           c == CacheSet(cache, pending.url, data, pending.now)
       IN  /\ cache' = c
           /\ Stand(Resume(pending.step, data, wordData, c, now, previousWord, inputWord))
    /\ responses' = Append(responses, [url |-> pending.url, ok |-> TRUE])
    /\ usedWords' = Append(usedWords, Normalize(inputWord))
    /\ UNCHANGED <<previousWord, inputWord, db, now, starVars, scoreVars, gameVars, returned, lookups>>

\* the request in flight is answered: the body is cached under the time of
\* the cachedFetch call and validateLink goes on
FetchOk ==
    /\ pc = "fetch"
    /\ LET data == db[pending.url]
           c == CacheSet(cache, pending.url, data, pending.now)
       IN  /\ cache' = c
           /\ Stand(Resume(pending.step, data, wordData, c, now, previousWord, inputWord))
    /\ responses' = Append(responses, [url |-> pending.url, ok |-> TRUE])
    /\ UNCHANGED <<previousWord, inputWord, usedWords, db, now, starVars, scoreVars, gameVars, returned, lookups>>

FetchFail_AbortsResolution ==
    /\ pc = "fetch"
    /\ IF pending.step = 0
       THEN Stand(Resume(0, OnFetchError.data, wordData, cache, now,
                         previousWord, inputWord))
       ELSE Stand(Returned(wordData,
                           Reject(inputWord, "no_connection",
                                  <<"No connection found to ", Normalize(previousWord)>>)))
    /\ responses' = Append(responses, [url |-> pending.url, ok |-> FALSE])
    /\ UNCHANGED <<previousWord, inputWord, usedWords, db, cache, now, starVars, scoreVars, gameVars, returned, lookups>>

\* the request in flight fails (network error, status not ok, body not JSON)
FetchFail ==
    /\ pc = "fetch"
    /\ IF OnFetchError.threw
       THEN Stand(Returned(wordData, Thrown))
       ELSE Stand(Resume(pending.step, OnFetchError.data, wordData, cache, now,
                         previousWord, inputWord))
    /\ responses' = Append(responses, [url |-> pending.url, ok |-> FALSE])
    /\ UNCHANGED <<previousWord, inputWord, usedWords, db, cache, now, starVars, scoreVars, gameVars, returned, lookups>>

CallIdle ==
    /\ previousWord = <<>>
    /\ inputWord = <<>>
    /\ usedWords = <<>>
    /\ db = <<>>
    /\ cache = <<>>
    /\ now = 0
    /\ pc = "done"
    /\ pending = NoPending
    /\ wordData = <<>>
    /\ requests = <<>>
    /\ responses = <<>>
    /\ result = NoResult

-----------------------------------------------------------------------------
(* Game store (src/unnamed/part_001) *)

\* the state the store is created with
InitialStore ==
    [mode |-> "daily", startWord |-> <<>>, endWord |-> <<>>, dailySeed |-> 0,
     chain |-> <<>>, status |-> "loading", penaltySteps |-> 0,
     lastFailedAttempt |-> <<>>, endlessGamesPlayed |-> 0]

\* the length of a calendar day in milliseconds; days are counted from the
\* day of time 0
DayLength == 48 * CACHE_TTL

\* getTodayKey() and getDailySeed() at time t: both name the calendar day
getTodayKey(t) == t \div DayLength
getDailySeed(t) == t \div DayLength

setMode(s, mode) == [s EXCEPT !.mode = mode, !.status = "loading"]

\* initGame: the store and the localStorage item "linkup_day" after it
initGame(s, day, startWord, endWord, seed, t) ==
    LET todayKey == getTodayKey(t)
    IN  IF /\ s.mode = "daily"
           /\ day = <<todayKey>>
           /\ Len(s.chain) > 0
           /\ s.startWord = startWord
        THEN [store |-> [s EXCEPT !.status = "playing"], linkupDay |-> day]
        ELSE [store |-> [s EXCEPT !.startWord = startWord, !.endWord = endWord,
                                  !.dailySeed = seed, !.chain = <<>>,
                                  !.status = "playing", !.penaltySteps = 0,
                                  !.lastFailedAttempt = <<>>],
              linkupDay |-> <<todayKey>>]

initEndlessGame(s, startWord, endWord, t) ==
    [s EXCEPT !.mode = "endless", !.startWord = startWord, !.endWord = endWord,
              !.dailySeed = t, !.chain = <<>>, !.status = "playing",
              !.penaltySteps = 0, !.lastFailedAttempt = <<>>]

addLink_KeepsFailure(s, validation, t) ==
    LET newLink == [word |-> validation.word,
                    relationLabel |-> validation.relationLabel,
                    creativityStars |-> validation.creativityStars,
                    heat |-> validation.heat,
                    isHubWord |-> validation.isHubWord,
                    timestamp |-> t]
        newPenalty == IF validation.isHubWord THEN s.penaltySteps + 1 ELSE s.penaltySteps
        isComplete == toLowerCase(validation.word) = toLowerCase(s.endWord)
    IN  [s EXCEPT !.chain = Append(s.chain, newLink),
                  !.penaltySteps = newPenalty,
                  !.status = IF isComplete THEN "won" ELSE "playing"]

addLink(s, validation, t) ==
    LET newLink == [word |-> validation.word,
                    relationLabel |-> validation.relationLabel,
                    creativityStars |-> validation.creativityStars,
                    heat |-> validation.heat,
                    isHubWord |-> validation.isHubWord,
                    timestamp |-> t]
        newPenalty == IF validation.isHubWord THEN s.penaltySteps + 1 ELSE s.penaltySteps
        isComplete == toLowerCase(validation.word) = toLowerCase(s.endWord)
    IN  [s EXCEPT !.chain = Append(s.chain, newLink),
                  !.penaltySteps = newPenalty,
                  !.status = IF isComplete THEN "won" ELSE "playing",
                  !.lastFailedAttempt = <<>>]

recordFailure(s, word, reason, t) ==
    [s EXCEPT !.lastFailedAttempt = <<[word |-> word, reason |-> reason, timestamp |-> t]>>]

clearFailure(s) == [s EXCEPT !.lastFailedAttempt = <<>>]

completeGame(s) ==
    [s EXCEPT !.status = "won",
              !.endlessGamesPlayed = IF s.mode = "endless" THEN @ + 1 ELSE @]

\* resetGame: the store and the localStorage item "linkup_day" after it
resetGame(s) ==
    [store |-> [s EXCEPT !.startWord = <<>>, !.endWord = <<>>, !.dailySeed = 0,
                         !.chain = <<>>, !.status = "loading", !.penaltySteps = 0,
                         !.lastFailedAttempt = <<>>],
     linkupDay |-> <<>>]

playAgain_KeepsPenalty(s) ==
    [s EXCEPT !.chain = <<>>, !.status = "loading", !.lastFailedAttempt = <<>>]

playAgain(s) ==
    [s EXCEPT !.chain = <<>>, !.status = "loading", !.penaltySteps = 0,
              !.lastFailedAttempt = <<>>]

\* the persist middleware: what is written to localStorage after every set,
\* and the store a new page starts with when that item is read back
partialize(s) ==
    [mode |-> s.mode, startWord |-> s.startWord, endWord |-> s.endWord,
     dailySeed |-> s.dailySeed, chain |-> s.chain, status |-> s.status,
     penaltySteps |-> s.penaltySteps, endlessGamesPlayed |-> s.endlessGamesPlayed]

rehydrate(persisted) ==
    [InitialStore EXCEPT !.mode = persisted.mode, !.startWord = persisted.startWord,
                         !.endWord = persisted.endWord, !.dailySeed = persisted.dailySeed,
                         !.chain = persisted.chain, !.status = persisted.status,
                         !.penaltySteps = persisted.penaltySteps,
                         !.endlessGamesPlayed = persisted.endlessGamesPlayed]

getCurrentWord(s) ==
    IF Len(s.chain) = 0 THEN s.startWord ELSE s.chain[Len(s.chain)].word

\* the callback of the reduce in getMostCreativeLink; best is <<>> for null
MoreCreative_LastWins(best, link) ==
    IF best = <<>> THEN <<link>>
    ELSE IF link.creativityStars > best[1].creativityStars THEN <<link>>
    ELSE IF link.creativityStars = best[1].creativityStars THEN <<link>>
    ELSE best

MoreCreative(best, link) ==
    IF best = <<>> THEN <<link>>
    ELSE IF link.creativityStars > best[1].creativityStars THEN <<link>>
    ELSE IF /\ link.creativityStars = best[1].creativityStars
            /\ RatLT(link.heat, best[1].heat)
         THEN <<link>>
    ELSE best

\* chain.reduce(callback, null)
RECURSIVE reduceChain(_, _)
reduceChain(chain, best) ==
    IF chain = <<>> THEN best
    ELSE reduceChain(Tail(chain), MoreCreative(best, Head(chain)))

getMostCreativeLink(s) ==
    IF Len(s.chain) = 0 THEN <<>> ELSE reduceChain(s.chain, <<>>)

\* getMostCreativeLink has not been called
NotAsked == [asked |-> FALSE, link |-> <<>>]

GameIdle ==
    /\ store = InitialStore
    /\ linkupDay = <<>>
    /\ page = <<>>
    /\ provenance = <<>>
    /\ bestLink = NotAsked

\* the variables of the specifications that are not running
RestIdle == GameIdle /\ returned = <<>> /\ lookups = <<>>

-----------------------------------------------------------------------------
(* Bounds of the scorer inputs *)

\* heats are taken on a grid of 10^-7, the resolution of the boundary cases
HeatUnit == 10 ^ 7
FrequencyUnit == 10 ^ 3

\* how far around each threshold the grid is enumerated, in grid steps
MaxOffset == 2
\* the number of equal steps in which [0, 1] is enumerated besides
HeatGrid == 10

MaxChainLength == 6
MaxPenaltySteps == 2
MaxTotalStars == 14

BoundaryHeats == {6600000, 6599999, 4000000, 3999999, 1000000}

HeatNumerators ==
    BoundaryHeats
    \cup {(66 * HeatUnit) \div 100 + o : o \in (0 - MaxOffset)..MaxOffset}
    \cup {(40 * HeatUnit) \div 100 + o : o \in (0 - MaxOffset)..MaxOffset}
    \cup {(i * HeatUnit) \div HeatGrid : i \in 0..(HeatGrid + 2)}

FrequencyNumerators ==
    {0, 5, 20, FrequencyUnit}
    \cup {n \in {FrequencyUnit \div 100 + o : o \in (0 - MaxOffset)..MaxOffset} : n >= 0}

Heats == {Rat(n, HeatUnit) : n \in HeatNumerators}
Frequencies == {Rat(n, FrequencyUnit) : n \in FrequencyNumerators}

-----------------------------------------------------------------------------
(* Specification of the creativity scorer alone *)

ScoreIdle ==
    /\ chainLength = 0
    /\ penaltySteps = 0
    /\ totalStars = 0
    /\ score = NoScore

StarsIdle ==
    /\ heat = Rat(0, 1)
    /\ frequency = Rat(0, 1)
    /\ stars = NotRated

InitStars ==
    /\ heat \in Heats
    /\ frequency \in Frequencies
    /\ stars = NotRated
    /\ ScoreIdle
    /\ CallIdle
    /\ RestIdle

RateLink ==
    /\ stars = NotRated
    /\ stars' = calculateCreativityStars(heat, frequency)
    /\ UNCHANGED <<heat, frequency, scoreVars, callVars, gameVars, returned, lookups>>

NextStars == RateLink

SpecStars == InitStars /\ [][NextStars]_vars

-----------------------------------------------------------------------------
(* Specification of the session scorer alone *)

InitScore ==
    /\ chainLength \in 0..MaxChainLength
    /\ penaltySteps \in 0..MaxPenaltySteps
    /\ totalStars \in 0..MaxTotalStars
    /\ score = NoScore
    /\ StarsIdle
    /\ CallIdle
    /\ RestIdle

ComputeScore ==
    /\ score = NoScore
    /\ score' = calculateScore(chainLength, penaltySteps, totalStars)
    /\ UNCHANGED <<chainLength, penaltySteps, totalStars, starVars, callVars, gameVars, returned, lookups>>

NextScore == ComputeScore

SpecScore == InitScore /\ [][NextScore]_vars

-----------------------------------------------------------------------------
(* Inputs of validateLink and answers of the data source *)

\* the longest list of used words
MaxUsed == 2
\* how often the clock advances during a call
MaxTicks == 1

Go == <<"g", "o">>
Og == <<"o", "g">>

\* the raw forms of a word: as it is, with a capital first letter, with blanks around
UpperCase == [c \in {"g", "o", " "} |-> IF c = "g" THEN "G" ELSE IF c = "o" THEN "O" ELSE c]
Capitalized(w) == [w EXCEPT ![1] = UpperCase[w[1]]]
Padded(w) == <<" ">> \o w \o <<" ">>

BaseWords == {Go, Og}
RawWords == UNION {{w, Capitalized(w), Padded(w)} : w \in BaseWords}

RECURSIVE ListsUpTo(_, _)
ListsUpTo(S, n) ==
    IF n = 0 THEN {<<>>}
    ELSE LET shorter == ListsUpTo(S, n - 1)
         IN  shorter \cup {Append(l, x) : l \in {m \in shorter : Len(m) = n - 1}, x \in S}

OtherWord(w) == IF w = Go THEN Og ELSE Go

FrequencyTag(n, d) == [prefix |-> "f:", rest |-> [numeric |-> TRUE, value |-> Rat(n, d)]]
JunkFrequencyTag == [prefix |-> "f:", rest |-> [numeric |-> FALSE, value |-> Num(0)]]
PronunciationTag == [prefix |-> "pron:", rest |-> [numeric |-> FALSE, value |-> Num(0)]]

\* the request URLs of one validateLink call
CallUrls(prev, inp) == {StepUrl(step, prev, inp) : step \in 0..Len(RELATION_PRIORITY)}

\* a data source that knows the word t (or not) and lists t, best first,
\* under the relations `hits` of the previous word and `miss` under the others
Source(prev, inp, spAnswer, hits, hit, miss) ==
    [url \in CallUrls(prev, inp) |->
        IF url[1] = "sp" THEN spAnswer
        ELSE IF url[1] \in hits THEN hit
        ELSE miss]

Kinds == {RELATION_PRIORITY[i] : i \in 1..Len(RELATION_PRIORITY)}

KnownWord(t) == <<DatamuseWord(t, 1000, << <<FrequencyTag(2, 100)>> >>)>>
\* the data source spells the word t with a capital letter
ProperNoun(t) == <<DatamuseWord(Capitalized(t), 1000, <<>>)>>
HitList(t) == <<DatamuseWord(OtherWord(t), 100, <<>>), DatamuseWord(t, 50, <<>>)>>
MissList(t) == <<DatamuseWord(OtherWord(t), 100, <<>>)>>

\* answers to the word-existence request for t
SpAnswers(t) ==
    { <<>>,
      KnownWord(t),
      ProperNoun(t),
      <<DatamuseWord(t, 1000, << <<PronunciationTag, FrequencyTag(5, 1000)>> >>)>>,
      <<DatamuseWord(OtherWord(t), 1000, <<>>)>> }

\* the clock advances
Tick ==
    /\ pc # "done"
    /\ now < MaxTicks * CACHE_TTL
    /\ now' = now + CACHE_TTL
    /\ UNCHANGED <<previousWord, inputWord, usedWords, db, cache, pc, pending,
                   wordData, requests, responses, result, starVars, scoreVars, gameVars, returned, lookups>>

CallStart ==
    /\ cache = <<>>
    /\ now = 0
    /\ pc = "call"
    /\ pending = NoPending
    /\ wordData = <<>>
    /\ requests = <<>>
    /\ responses = <<>>
    /\ result = NoResult
    /\ StarsIdle
    /\ ScoreIdle
    /\ RestIdle

NextCall ==
    \/ Validate
    \/ FetchOk
    \/ FetchFail
    \/ Tick

-----------------------------------------------------------------------------
(* Specification of one validateLink call on any arguments, against a data  *)
(* source that either does not know the word or lists it under every        *)
(* relation                                                                 *)

InitCall ==
    /\ previousWord \in RawWords
    /\ inputWord \in RawWords
    /\ usedWords \in ListsUpTo(RawWords, MaxUsed)
    /\ \E spAnswer \in {<<>>, KnownWord(Normalize(inputWord)),
                       ProperNoun(Normalize(inputWord))} :
          db = Source(previousWord, inputWord, spAnswer, Kinds,
                      HitList(Normalize(inputWord)), <<>>)
    /\ CallStart

SpecCall == InitCall /\ [][NextCall]_vars

-----------------------------------------------------------------------------
(* Specification of one validateLink call on a few arguments, against every *)
(* data source of the family: any answer to the word-existence request, and *)
(* the word listed under any set of relations                               *)

InitSource ==
    /\ previousWord = Og
    /\ inputWord \in {Go, Capitalized(Go)}
    /\ usedWords = <<Og>>
    /\ \E spAnswer \in SpAnswers(Normalize(inputWord)), hits \in SUBSET Kinds,
          miss \in {<<>>, MissList(Normalize(inputWord))} :
          db = Source(previousWord, inputWord, spAnswer, hits,
                      HitList(Normalize(inputWord)), miss)
    /\ CallStart

SpecSource == InitSource /\ [][NextCall]_vars

\* the same calls on a clock that stands still: the requests of one call
\* have different URLs, so that no lookup of the call finds an entry of the
\* cache, of whatever age
NextResolve ==
    \/ Validate
    \/ FetchOk
    \/ FetchFail

SpecResolve == InitSource /\ [][NextResolve]_vars

-----------------------------------------------------------------------------
(* Specification of one validateLink call against every best-first result   *)
(* list of bounded length and bounded scores, listed under one relation,     *)
(* and every kind of frequency metadata                                      *)

\* the highest relevance score and the longest result list
MaxListScore == 3
MaxListLen == 2

\* the lists of at most n entries whose scores do not increase, over the words ws
RECURSIVE BestFirstLists(_, _, _)
BestFirstLists(ws, top, n) ==
    IF n = 0 THEN {<<>>}
    ELSE {<<>>} \cup
         UNION {{<<DatamuseWord(w, sc, <<>>)>> \o rest : rest \in BestFirstLists(ws, sc, n - 1)} :
                   w \in ws, sc \in 0..top}

\* answers to the word-existence request for t: every shape of the tags
TagAnswers(t) ==
    { KnownWord(t),
      ProperNoun(t),
      <<DatamuseWord(t, 1000, << <<PronunciationTag>> >>)>>,
      <<DatamuseWord(t, 1000, << <<JunkFrequencyTag>> >>)>>,
      <<DatamuseWord(t, 1000, << <<PronunciationTag, FrequencyTag(5, 1000)>> >>)>>,
      <<DatamuseWord(t, 0, << <<FrequencyTag(1, 100)>> >>)>> }

InitLists ==
    /\ previousWord = Og
    /\ inputWord \in {Go, Padded(Capitalized(Go))}
    /\ usedWords = <<Og>>
    /\ \E spAnswer \in TagAnswers(Normalize(inputWord)),
          k \in {"rel_syn", "rel_trg"},
          list \in BestFirstLists({Normalize(inputWord), OtherWord(Normalize(inputWord))},
                                  MaxListScore, MaxListLen) :
          db = Source(previousWord, inputWord, spAnswer, {k}, list, <<>>)
    /\ CallStart

\* every request is answered: what the lists do to the result is the same
\* whichever requests fail on the way
NextLists ==
    \/ Validate
    \/ FetchOk
    \/ Tick

SpecLists == InitLists /\ [][NextLists]_vars

-----------------------------------------------------------------------------
(* Specification of a validateLink call repeated on the same arguments,      *)
(* against a data source that answers every request and always the same,     *)
(* from a cache that holds answers the data source gave before the first     *)
(* call: current ones or older, different ones, expired or not               *)

\* the number of calls and the most entries in the cache before the first
MaxCalls == 2
MaxCached == 2

\* the answers the data source may have given to a request earlier
EarlierAnswers(url, t) ==
    IF url[1] = "sp" THEN {<<>>, KnownWord(t)}
    ELSE {<<>>, HitList(t), MissList(t)}

\* the entries are older than the first call, at time 0: by 1 ms, or by
\* the whole of CACHE_TTL
EarlierTimes == {0 - 1, 0 - CACHE_TTL}

\* the caches with at most n entries for the URLs of `urls`
RECURSIVE EarlierCaches(_, _, _)
EarlierCaches(urls, t, n) ==
    IF n = 0 THEN {<<>>}
    ELSE LET smaller == EarlierCaches(urls, t, n - 1)
         IN  smaller \cup
             UNION {{CacheSet(c, url, data, ts) :
                        c \in smaller, data \in EarlierAnswers(url, t), ts \in EarlierTimes} :
                    url \in urls}

InitRepeat ==
    /\ previousWord = Og
    /\ inputWord = Capitalized(Go)
    /\ usedWords = <<Og>>
    /\ \E spAnswer \in {<<>>, KnownWord(Go)}, hits \in SUBSET {"rel_syn", "rel_trg"} :
          db = Source(previousWord, inputWord, spAnswer, hits, HitList(Go), <<>>)
    /\ cache \in EarlierCaches({StepUrl(step, previousWord, inputWord) : step \in 0..2},
                               Go, MaxCached)
    /\ returned = [cache |-> cache, results |-> <<>>]
    /\ now = 0
    /\ pc = "call"
    /\ pending = NoPending
    /\ wordData = <<>>
    /\ requests = <<>>
    /\ responses = <<>>
    /\ result = NoResult
    /\ StarsIdle
    /\ ScoreIdle
    /\ GameIdle
    /\ lookups = <<>>

\* the call has returned and is made again with the same arguments
RepeatCall ==
    /\ pc = "done"
    /\ Len(returned.results) < MaxCalls - 1
    /\ returned' = [returned EXCEPT !.results = Append(@, result)]
    /\ pc' = "call"
    /\ pending' = NoPending
    /\ wordData' = <<>>
    /\ requests' = <<>>
    /\ responses' = <<>>
    /\ result' = NoResult
    /\ UNCHANGED <<previousWord, inputWord, usedWords, db, cache, now,
                   starVars, scoreVars, gameVars, lookups>>

NextRepeat ==
    \/ Validate
    \/ FetchOk
    \/ Tick
    \/ RepeatCall

SpecRepeat == InitRepeat /\ [][NextRepeat]_vars

-----------------------------------------------------------------------------
(* Specification of the response cache under the cachedFetch calls of        *)
(* several validations in flight: any queries, in any interleaving, against  *)
(* a data source whose answer to a query may differ from request to request  *)

\* the number of cachedFetch calls
MaxLookups == 3

\* the queries: the word-existence request and the synonym request for a word
Queries == {[word |-> w, kind |-> k] : w \in BaseWords, k \in {"sp", "rel_syn"}}

QueryUrl(q) == IF q.kind = "sp" THEN verifyUrl(q.word) ELSE relatedUrl(q.word, q.kind)

\* the answers the data source gives to a query; no answer is an answer to
\* two queries
Answers(q) ==
    IF q.kind = "sp"
    THEN {KnownWord(q.word), <<DatamuseWord(q.word, 1000, <<>>)>>}
    ELSE {<<DatamuseWord(OtherWord(q.word), 100, <<>>)>>,
          <<DatamuseWord(OtherWord(q.word), 90, <<>>)>>}

\* cachedFetch(url) is called for the query q: it returns the cached data
\* or sends its request and waits
LookupCall(q) ==
    /\ Len(lookups) < MaxLookups
    /\ LET url == QueryUrl(q)
           hit == CacheHit(cache, url, now)
       IN  lookups' = Append(lookups,
               [query |-> q, url |-> url, now |-> now, waiting |-> ~hit, hit |-> hit,
                failed |-> FALSE, body |-> <<>>,
                data |-> IF hit THEN cache[url].data ELSE <<>>])
    /\ UNCHANGED <<callVars, starVars, scoreVars, gameVars, returned>>

\* the request of the i-th call is answered with `body`
LookupAnswered(i, body) ==
    /\ lookups[i].waiting
    /\ cache' = CacheSet(cache, lookups[i].url, body, lookups[i].now)
    /\ lookups' = [lookups EXCEPT ![i].waiting = FALSE, ![i].body = <<body>>,
                                  ![i].data = body]
    /\ UNCHANGED <<previousWord, inputWord, usedWords, db, now, pc, pending, wordData,
                   requests, responses, result, starVars, scoreVars, gameVars, returned>>

LookupFailed_StoresEmptyList(i) ==
    /\ lookups[i].waiting
    /\ cache' = CacheSet(cache, lookups[i].url, <<>>, lookups[i].now)
    /\ lookups' = [lookups EXCEPT ![i].waiting = FALSE, ![i].failed = TRUE,
                                  ![i].data = <<>>]
    /\ UNCHANGED <<previousWord, inputWord, usedWords, db, now, pc, pending, wordData,
                   requests, responses, result, starVars, scoreVars, gameVars, returned>>

\* the request of the i-th call fails
LookupFailed(i) ==
    /\ lookups[i].waiting
    /\ ~OnFetchError.threw
    /\ lookups' = [lookups EXCEPT ![i].waiting = FALSE, ![i].failed = TRUE,
                                  ![i].data = OnFetchError.data]
    /\ UNCHANGED <<callVars, starVars, scoreVars, gameVars, returned>>

\* the clock advances while calls are to come or requests are in flight
Elapse ==
    /\ now < MaxTicks * CACHE_TTL
    /\ Len(lookups) < MaxLookups \/ \E i \in 1..Len(lookups) : lookups[i].waiting
    /\ now' = now + CACHE_TTL
    /\ UNCHANGED <<previousWord, inputWord, usedWords, db, cache, pc, pending, wordData,
                   requests, responses, result, starVars, scoreVars, gameVars,
                   returned, lookups>>

InitCache ==
    /\ lookups = <<>>
    /\ returned = <<>>
    /\ GameIdle
    /\ CallIdle
    /\ StarsIdle
    /\ ScoreIdle

NextCache ==
    \/ \E q \in Queries : LookupCall(q)
    \/ \E i \in 1..Len(lookups) : \E body \in Answers(lookups[i].query) : LookupAnswered(i, body)
    \/ \E i \in 1..Len(lookups) : LookupFailed(i)
    \/ Elapse

SpecCache == InitCache /\ [][NextCache]_vars

-----------------------------------------------------------------------------
(* Specification of the response cache around the expiry of its entries:     *)
(* cachedFetch calls for the two queries of one word, in any interleaving,   *)
(* answered with a list, with the empty list or not at all, on a clock that  *)
(* stops one millisecond before each multiple of the time-to-live and at     *)
(* the multiple                                                              *)

ExpiryQueries == {q \in Queries : q.word = Go}

\* the clock advances to the last millisecond before the next multiple of
\* the time-to-live, and from there to the multiple
ElapseToExpiry ==
    /\ now < MaxTicks * CACHE_TTL
    /\ Len(lookups) < MaxLookups \/ \E i \in 1..Len(lookups) : lookups[i].waiting
    /\ now' = IF now % CACHE_TTL = 0 THEN now + CACHE_TTL - 1 ELSE now + 1
    /\ UNCHANGED <<previousWord, inputWord, usedWords, db, cache, pc, pending, wordData,
                   requests, responses, result, starVars, scoreVars, gameVars,
                   returned, lookups>>

NextExpiry ==
    \/ \E q \in ExpiryQueries : LookupCall(q)
    \/ \E i \in 1..Len(lookups) :
          \E body \in Answers(lookups[i].query) \cup {<<>>} : LookupAnswered(i, body)
    \/ \E i \in 1..Len(lookups) : LookupFailed(i)
    \/ ElapseToExpiry

SpecExpiry == InitCache /\ [][NextExpiry]_vars

-----------------------------------------------------------------------------
(* Specification of getMostCreativeLink alone, on every chain of bounded     *)
(* length whose links carry the rating the creativity scorer gives them      *)

\* the longest chain
MaxLinks == 3

LinkHeats == {Rat(1, 10), Rat(3, 10), Rat(1, 2), Rat(1, 1)}
LinkFrequencies == {Num(0), Rat(2, 100)}

\* the i-th word of a chain: pairwise distinct words
LinkWord(i) == [j \in 1..i |-> "o"]

RatedLinks ==
    {[heat |-> h, creativityStars |-> calculateCreativityStars(h, f)] :
        h \in LinkHeats, f \in LinkFrequencies}

ChainOf(ratings) ==
    [i \in 1..Len(ratings) |->
        [word |-> LinkWord(i), relationLabel |-> "Synonym",
         creativityStars |-> ratings[i].creativityStars, heat |-> ratings[i].heat,
         isHubWord |-> FALSE, timestamp |-> 0]]

InitCreative ==
    /\ \E ratings \in ListsUpTo(RatedLinks, MaxLinks) :
          store = [InitialStore EXCEPT
                      !.mode = "endless",
                      !.startWord = <<"g">>,
                      !.endWord = LinkWord(IF ratings = <<>> THEN 1 ELSE Len(ratings)),
                      !.chain = ChainOf(ratings),
                      !.status = IF ratings = <<>> THEN "playing" ELSE "won"]
    /\ linkupDay = <<>>
    /\ page = <<>>
    /\ provenance = <<>>
    /\ bestLink = NotAsked
    /\ returned = <<>>
    /\ lookups = <<>>
    /\ CallIdle
    /\ StarsIdle
    /\ ScoreIdle

\* the win screen asks for the best link
MostCreativeLink ==
    /\ ~bestLink.asked
    /\ bestLink' = [asked |-> TRUE, link |-> getMostCreativeLink(store)]
    /\ UNCHANGED <<store, linkupDay, page, provenance, returned, lookups,
                   callVars, starVars, scoreVars>>

NextCreative == MostCreativeLink

SpecCreative == InitCreative /\ [][NextCreative]_vars

-----------------------------------------------------------------------------
(* Page (src/unnamed/part_000) and the game it plays                         *)
(*                                                                           *)
(* part_000 holds two layouts of the page.  Both have handleSubmit and       *)
(* handleDismissError; the layout "header" has handleNewGame, the layout     *)
(* "toggle" has handleModeChange and handlePlayAgain.                        *)

\* the word pairs of getDailyWordPair and getRandomWordPair, with the words
\* of the model: as in the program, the daily pairs open the practice list
\* and a start word of one practice pair is the end word of another
Oo == <<"o", "o">>
WORD_PAIRS == << [start |-> Og, end |-> Go] >>
PRACTICE_PAIRS == << [start |-> Og, end |-> Go], [start |-> Go, end |-> Og] >>

getDailyWordPair(seed) == WORD_PAIRS[(seed % Len(WORD_PAIRS)) + 1]

\* the page shows the game and not the loading screen
Rendered == store.status # "loading" /\ store.startWord # <<>>
hasWon == store.status = "won"

\* validateLink has returned to a handleSubmit whose continuation has not
\* run yet; the continuation runs before any other event is handled
Unsettled == page.isValidating /\ pc = "done"

\* the words the used-word list is built from
chainWords(s) == [i \in 1..Len(s.chain) |-> s.chain[i].word]

\* the history of the chain after the store has become s
Provenance(s) ==
    IF s.chain = store.chain THEN provenance
    ELSE IF s.chain = <<>> THEN <<>>
    ELSE Append(provenance, previousWord)

HandleSubmit_NoValidatingGuard(typed) ==
    LET word == trim(typed)
        currentWord == getCurrentWord(store)
        used == <<store.startWord>> \o chainWords(store)
        targetWord == IF toLowerCase(word) = toLowerCase(store.endWord)
                      THEN store.endWord ELSE word
        o == Start(currentWord, targetWord, used, cache, now)
    IN  /\ Rendered /\ ~hasWon /\ ~Unsettled
        /\ IF word = <<>> \/ store.status # "playing"
           THEN /\ page' = [page EXCEPT !.ignored = TRUE]
                /\ UNCHANGED <<store, callVars>>
           ELSE /\ page' = [page EXCEPT !.isValidating = TRUE, !.error = <<>>,
                                        !.value = typed, !.word = word,
                                        !.inFlight = @ + 1, !.ignored = FALSE]
                /\ previousWord' = currentWord
                /\ inputWord' = targetWord
                /\ usedWords' = used
                /\ pc' = o.pc
                /\ pending' = o.pending
                /\ wordData' = o.wordData
                /\ result' = o.result
                /\ requests' = o.sent
                /\ responses' = <<>>
                /\ UNCHANGED <<db, cache, now, store>>
        /\ UNCHANGED <<linkupDay, provenance, bestLink, returned, lookups,
                       starVars, scoreVars>>

\* handleSubmit, called with `typed` in the input field, up to its early
\* return, or to the first request of validateLink or the return of
\* validateLink.  page.inFlight counts the calls that have not run to their
\* end; page.ignored tells that the last call returned early.
HandleSubmit(typed) ==
    LET word == trim(typed)
        currentWord == getCurrentWord(store)
        used == <<store.startWord>> \o chainWords(store)
        targetWord == IF toLowerCase(word) = toLowerCase(store.endWord)
                      THEN store.endWord ELSE word
        o == Start(currentWord, targetWord, used, cache, now)
    IN  /\ Rendered /\ ~hasWon /\ ~Unsettled
        /\ IF word = <<>> \/ page.isValidating \/ store.status # "playing"
           THEN /\ page' = [page EXCEPT !.ignored = TRUE]
                /\ UNCHANGED <<store, callVars>>
           ELSE /\ page' = [page EXCEPT !.isValidating = TRUE, !.error = <<>>,
                                        !.value = typed, !.word = word,
                                        !.inFlight = @ + 1, !.ignored = FALSE]
                /\ previousWord' = currentWord
                /\ inputWord' = targetWord
                /\ usedWords' = used
                /\ pc' = o.pc
                /\ pending' = o.pending
                /\ wordData' = o.wordData
                /\ result' = o.result
                /\ requests' = o.sent
                /\ responses' = <<>>
                /\ UNCHANGED <<db, cache, now, store>>
        /\ UNCHANGED <<linkupDay, provenance, bestLink, returned, lookups,
                       starVars, scoreVars>>

SettleSubmit_RejectKeepsFlag ==
    /\ Unsettled
    /\ IF result.valid
       THEN /\ store' = addLink(store, result, now)
            /\ page' = [page EXCEPT !.value = <<>>, !.isValidating = FALSE,
                                    !.inFlight = 0]
       ELSE /\ store' = recordFailure(store, page.word, result.message, now)
            /\ page' = [page EXCEPT !.error = <<result.message>>, !.inFlight = 0]
    /\ provenance' = Provenance(store')
    /\ UNCHANGED <<linkupDay, bestLink, returned, lookups, callVars, starVars, scoreVars>>

\* handleSubmit after validateLink has returned
SettleSubmit ==
    /\ Unsettled
    /\ IF result.valid
       THEN /\ store' = addLink(store, result, now)
            /\ page' = [page EXCEPT !.value = <<>>, !.isValidating = FALSE,
                                    !.inFlight = @ - 1]
       ELSE /\ store' = recordFailure(store, page.word, result.message, now)
            /\ page' = [page EXCEPT !.error = <<result.message>>, !.isValidating = FALSE,
                                    !.inFlight = @ - 1]
    /\ provenance' = Provenance(store')
    /\ UNCHANGED <<linkupDay, bestLink, returned, lookups, callVars, starVars, scoreVars>>

HandleDismissError ==
    /\ Rendered /\ ~hasWon /\ ~Unsettled
    /\ page.error # <<>>
    /\ page' = [page EXCEPT !.error = <<>>]
    /\ store' = clearFailure(store)
    /\ UNCHANGED <<linkupDay, provenance, bestLink, returned, lookups,
                   callVars, starVars, scoreVars>>

\* handleNewGame; getRandomWordPair resolves without waiting, so loadGame
\* runs to its end before any other event; the effect on `mode` is due when
\* the mode has changed
HandleNewGame ==
    /\ page.layout = "header"
    /\ Rendered /\ ~Unsettled
    /\ \E i \in 1..Len(PRACTICE_PAIRS) :
          store' = initEndlessGame(playAgain(setMode(store, "endless")),
                                   PRACTICE_PAIRS[i].start, PRACTICE_PAIRS[i].end, now)
    /\ page' = [page EXCEPT !.effectDue = @ \/ store.mode # "endless"]
    /\ provenance' = Provenance(store')
    /\ UNCHANGED <<linkupDay, bestLink, returned, lookups, callVars, starVars, scoreVars>>

HandleModeChange(newMode) ==
    /\ page.layout = "toggle"
    /\ Rendered /\ ~Unsettled
    /\ store' = setMode(store, newMode)
    /\ page' = [page EXCEPT !.effectDue = @ \/ store.mode # newMode]
    /\ provenance' = Provenance(store')
    /\ UNCHANGED <<linkupDay, bestLink, returned, lookups, callVars, starVars, scoreVars>>

HandlePlayAgain ==
    /\ page.layout = "toggle"
    /\ Rendered /\ ~Unsettled
    /\ hasWon /\ store.mode = "endless"
    /\ \E i \in 1..Len(PRACTICE_PAIRS) :
          store' = initEndlessGame(playAgain(store),
                                   PRACTICE_PAIRS[i].start, PRACTICE_PAIRS[i].end, now)
    /\ provenance' = Provenance(store')
    /\ UNCHANGED <<page, linkupDay, bestLink, returned, lookups, callVars, starVars, scoreVars>>

\* the page is loaded again: the store starts from the persisted item, the
\* page state and the module's cache start anew, the effect on `mode` is due,
\* and a validation in flight is gone with the page that made it
Reload ==
    /\ ~Unsettled
    /\ store' = rehydrate(partialize(store))
    /\ page' = [page EXCEPT !.isValidating = FALSE, !.error = <<>>, !.value = <<>>,
                            !.word = <<>>, !.effectDue = TRUE, !.inFlight = 0,
                            !.ignored = FALSE]
    /\ cache' = <<>>
    /\ pc' = "done"
    /\ pending' = NoPending
    /\ wordData' = <<>>
    /\ result' = NoResult
    /\ provenance' = Provenance(store')
    /\ UNCHANGED <<previousWord, inputWord, usedWords, db, now, requests, responses,
                   linkupDay, bestLink, returned, lookups, starVars, scoreVars>>

\* the effect on [mode, loadGame]: loadGame(mode), after the first render
\* and after every render with another mode
ModeEffect ==
    /\ page.effectDue /\ ~Unsettled
    /\ page' = [page EXCEPT !.effectDue = FALSE]
    /\ IF store.mode = "daily"
       THEN LET seed == getDailySeed(now)
                pair == getDailyWordPair(seed)
                after == initGame(store, linkupDay, pair.start, pair.end, seed, now)
            IN  store' = after.store /\ linkupDay' = after.linkupDay
       ELSE /\ \E i \in 1..Len(PRACTICE_PAIRS) :
                  store' = initEndlessGame(store, PRACTICE_PAIRS[i].start,
                                           PRACTICE_PAIRS[i].end, now)
            /\ linkupDay' = linkupDay
    /\ provenance' = Provenance(store')
    /\ UNCHANGED <<bestLink, returned, lookups, callVars, starVars, scoreVars>>

-----------------------------------------------------------------------------
(* Specification of the game: the page on a fresh store, against a data      *)
(* source that knows two words, each the synonym of the other.  The clock    *)
(* stands still: no step of the game compares times but the cache lookup.    *)

\* how many requests of one validation fail
MaxFailures == 1

\* the words the data source knows
GameWords == {Go, Og}

\* what the player types: the input field lower-cases it; Oo is no word,
\* and a blank is no input
TypedValues == GameWords \cup {Oo, <<" ">>}

GameUrls == {<<e, w>> : e \in {"sp"} \cup Kinds, w \in TypedValues}

\* each word of the data source is the one synonym of the other
GameSource ==
    [url \in GameUrls |->
        IF url[2] \notin GameWords THEN <<>>
        ELSE IF url[1] = "sp" THEN KnownWord(url[2])
        ELSE IF url[1] = "rel_syn" THEN <<DatamuseWord(OtherWord(url[2]), 100, <<>>)>>
        ELSE <<>>]

FailedRequests == Cardinality({i \in 1..Len(responses) : ~responses[i].ok})

\* a request of the validation in flight fails, while failures are left: the
\* word-existence request or the request for the one relation under which
\* the data source lists a word.  The failure of a request for another
\* relation gives the validation the empty list that its answer gives.
FetchFailInGame ==
    /\ FailedRequests < MaxFailures
    /\ pc = "fetch"
    /\ pending.url[1] \in {"sp", "rel_syn"}
    /\ FetchFail

InitGame ==
    /\ store = InitialStore
    /\ linkupDay = <<>>
    /\ \E layout \in {"header", "toggle"} :
          page = [layout |-> layout, isValidating |-> FALSE, error |-> <<>>,
                  value |-> <<>>, word |-> <<>>, effectDue |-> TRUE,
                  inFlight |-> 0, ignored |-> FALSE]
    /\ provenance = <<>>
    /\ bestLink = NotAsked
    /\ returned = <<>>
    /\ lookups = <<>>
    /\ previousWord = <<>>
    /\ inputWord = <<>>
    /\ usedWords = <<>>
    /\ db = GameSource
    /\ cache = <<>>
    /\ now = 0
    /\ pc = "done"
    /\ pending = NoPending
    /\ wordData = <<>>
    /\ requests = <<>>
    /\ responses = <<>>
    /\ result = NoResult
    /\ StarsIdle
    /\ ScoreIdle

NextGame ==
    \/ \E typed \in TypedValues : HandleSubmit(typed)
    \/ FetchOk
    \/ FetchFailInGame
    \/ SettleSubmit
    \/ HandleDismissError
    \/ HandleNewGame
    \/ \E newMode \in {"daily", "endless"} : HandleModeChange(newMode)
    \/ HandlePlayAgain
    \/ ModeEffect
    \/ Reload

SpecGame == InitGame /\ [][NextGame]_vars

\* One round of play on the page, in either layout: submissions, their
\* requests and their continuation, and the dismissal of the error.  Every
\* request in flight is eventually answered or fails, and the continuation of
\* handleSubmit runs once validateLink has returned.
NextSubmit ==
    \/ \E typed \in TypedValues : HandleSubmit(typed)
    \/ FetchOk
    \/ FetchFailInGame
    \/ SettleSubmit
    \/ HandleDismissError
    \/ ModeEffect

SpecSubmitFair ==
    /\ InitGame
    /\ [][NextSubmit]_vars
    /\ WF_vars(FetchOk \/ FetchFailInGame)
    /\ WF_vars(SettleSubmit)

-----------------------------------------------------------------------------
(* Specification of the store alone: its operations called in any order by   *)
(* any caller, with any accept value, and the store read back from the       *)
(* persisted item at any moment.  The clock stands still.                    *)

\* how often completeGame counts a finished endless game
MaxGamesPlayed == 1

\* accept values: a word, with or without the hub flag
Validations ==
    {[valid |-> TRUE, word |-> w, relationType |-> "rel_syn",
      relationLabel |-> RELATION_LABELS["rel_syn"], heat |-> Rat(1, 2),
      creativityStars |-> 2, isHubWord |-> h, frequency |-> Rat(2, 100)] :
        w \in GameWords, h \in BOOLEAN}

StoreOnly == UNCHANGED <<page, provenance, bestLink, returned, lookups,
                         callVars, starVars, scoreVars>>

CallSetMode(mode) ==
    /\ store' = setMode(store, mode)
    /\ UNCHANGED linkupDay
    /\ StoreOnly

CallInitGame(pair) ==
    /\ LET after == initGame(store, linkupDay, pair.start, pair.end, getDailySeed(now), now)
       IN  store' = after.store /\ linkupDay' = after.linkupDay
    /\ StoreOnly

CallInitEndlessGame(pair) ==
    /\ store' = initEndlessGame(store, pair.start, pair.end, now)
    /\ UNCHANGED linkupDay
    /\ StoreOnly

CallAddLink(validation) ==
    /\ Len(store.chain) < MaxLinks
    /\ store' = addLink(store, validation, now)
    /\ UNCHANGED linkupDay
    /\ StoreOnly

CallRecordFailure(word) ==
    /\ store' = recordFailure(store, word, <<"Not a valid word">>, now)
    /\ UNCHANGED linkupDay
    /\ StoreOnly

CallClearFailure ==
    /\ store' = clearFailure(store)
    /\ UNCHANGED linkupDay
    /\ StoreOnly

CallCompleteGame ==
    /\ store.endlessGamesPlayed < MaxGamesPlayed
    /\ store' = completeGame(store)
    /\ UNCHANGED linkupDay
    /\ StoreOnly

CallResetGame ==
    /\ LET after == resetGame(store)
       IN  store' = after.store /\ linkupDay' = after.linkupDay
    /\ StoreOnly

CallPlayAgain ==
    /\ store' = playAgain(store)
    /\ UNCHANGED linkupDay
    /\ StoreOnly

\* the page is loaded again: the store is read back from the persisted item
Rehydrate ==
    /\ store' = rehydrate(partialize(store))
    /\ UNCHANGED linkupDay
    /\ StoreOnly

InitStore ==
    /\ store = InitialStore
    /\ linkupDay = <<>>
    /\ page = <<>>
    /\ provenance = <<>>
    /\ bestLink = NotAsked
    /\ returned = <<>>
    /\ lookups = <<>>
    /\ CallIdle
    /\ StarsIdle
    /\ ScoreIdle

NextStore ==
    \/ \E mode \in {"daily", "endless"} : CallSetMode(mode)
    \/ \E i \in 1..Len(PRACTICE_PAIRS) : CallInitGame(PRACTICE_PAIRS[i])
    \/ \E i \in 1..Len(PRACTICE_PAIRS) : CallInitEndlessGame(PRACTICE_PAIRS[i])
    \/ \E validation \in Validations : CallAddLink(validation)
    \/ \E word \in TypedValues : CallRecordFailure(word)
    \/ CallClearFailure
    \/ CallCompleteGame
    \/ CallResetGame
    \/ CallPlayAgain
    \/ Rehydrate

SpecStore == InitStore /\ [][NextStore]_vars

-----------------------------------------------------------------------------
(* Properties of validateLink (SpecCall, SpecSource) *)

Done == pc = "done"

\* a word lower-cased, and lower-cased without the blanks around it, stated
\* apart from the program's own normalisation
LowerCased(w) ==
    [i \in 1..Len(w) |-> CASE w[i] = "G" -> "g" [] w[i] = "O" -> "o" [] OTHER -> w[i]]
Canonical(w) ==
    LET solid == {i \in 1..Len(w) : w[i] # " "}
    IN  IF solid = {} THEN <<>>
        ELSE LET first == CHOOSE i \in solid : \A j \in solid : i <= j
                 last == CHOOSE i \in solid : \A j \in solid : j <= i
             IN  SubSeq(LowerCased(w), first, last)

\* C1: when the candidate and the previous word are equal after lower-casing
\* and trimming (in particular when they are the same word), the call
\* returns Reject(same_word), whatever the used words and the data source.
C1_SameWordRejected ==
    (Done /\ Canonical(inputWord) = Canonical(previousWord)) =>
        /\ ~result.valid
        /\ result.reason = "same_word"
        /\ result.word = inputWord

C1_Witness ==
    /\ Done
    /\ previousWord = Padded(Go)
    /\ inputWord = Capitalized(Go)
    /\ usedWords = <<>>
    /\ ~result.valid
    /\ result.reason = "same_word"

\* the call is validateLink(lastOf(C), W, C) for a word W that occurs in C
\* when compared case-insensitively
CandidateInChain ==
    /\ usedWords # <<>>
    /\ previousWord = usedWords[Len(usedWords)]
    /\ \E i \in 1..Len(usedWords) : LowerCased(inputWord) = LowerCased(usedWords[i])

\* C2 as claimed: validateLink(lastOf(C), W, C) returns Reject(already_used)
\* for every chain C and every W that occurs in C case-insensitively.
C2_AlreadyUsedAsClaimed ==
    (Done /\ CandidateInChain) =>
        (~result.valid /\ result.reason = "already_used")

\* C2 amended: for every chain C and every W whose lower-cased, trimmed form
\* equals the lower-cased form of a word of C, validateLink(lastOf(C), W, C)
\* returns Reject(same_word) when W equals lastOf(C) after lower-casing and
\* trimming both, and Reject(already_used) otherwise.
C2_AlreadyUsed ==
    ( /\ Done
      /\ usedWords # <<>>
      /\ previousWord = usedWords[Len(usedWords)]
      /\ \E i \in 1..Len(usedWords) : Canonical(inputWord) = LowerCased(usedWords[i]) ) =>
        /\ ~result.valid
        /\ result.reason =
              IF Canonical(inputWord) = Canonical(previousWord)
              THEN "same_word" ELSE "already_used"

C2_Witness ==
    /\ Done
    /\ usedWords = <<Og, Go>>
    /\ previousWord = Go
    /\ inputWord = Capitalized(Og)
    /\ ~result.valid
    /\ result.reason = "already_used"

\* C3: a call that returns Reject(same_word) or Reject(already_used) has sent
\* no request to the data source, neither the word-existence request nor a
\* relation request, and has left the cache as it was.
C3_NoRequestOnQuickReject ==
    (Done /\ ~result.valid /\ result.reason \in {"same_word", "already_used"}) =>
        /\ requests = <<>>
        /\ responses = <<>>
        /\ cache = <<>>

C3_Witness ==
    /\ Done
    /\ ~result.valid
    /\ result.reason = "already_used"
    /\ db[verifyUrl(inputWord)] # <<>>
    /\ requests = <<>>

Failed(url) == \E i \in 1..Len(responses) : responses[i].url = url /\ ~responses[i].ok
WordRequest == <<"sp", Canonical(inputWord)>>
RelationRequest(k) == <<k, Canonical(previousWord)>>

\* C4: whichever requests fail, the call returns a ValidAccept or a Reject
\* with one of the four reasons and never raises; when the word-existence
\* request has failed the reason is not_a_word; when relation requests have
\* failed the result is no_connection or an accept under a kind whose
\* request did not fail.
C4_FailuresBecomeRejects ==
    Done =>
        /\ result.valid \/
              result.reason \in {"same_word", "already_used", "not_a_word", "no_connection"}
        /\ Failed(WordRequest) => (~result.valid /\ result.reason = "not_a_word")
        /\ \A k \in Kinds :
              Failed(RelationRequest(k)) =>
                  \/ ~result.valid /\ result.reason = "no_connection"
                  \/ result.valid /\ result.relationType # k

C4_Witness ==
    /\ Done
    /\ Failed(RelationRequest("rel_syn"))
    /\ Failed(RelationRequest("rel_jja"))
    /\ result.valid
    /\ result.relationType = "rel_bga"

\* the priority order as the claim gives it
PriorityOf(k) ==
    CASE k = "rel_syn" -> 1 [] k = "rel_trg" -> 2 [] k = "rel_jja" -> 3
      [] k = "rel_jjb" -> 4 [] k = "rel_bga" -> 5 [] k = "rel_bgb" -> 6
      [] k = "rel_cns" -> 7

\* the list getRelatedWords returns for kind k contains the candidate: the
\* data source lists it and the request for k has not failed
Lists(k) ==
    /\ ~Failed(RelationRequest(k))
    /\ \E i \in 1..Len(db[RelationRequest(k)]) :
          LowerCased(db[RelationRequest(k)][i].word) = Canonical(inputWord)

\* C5: the relation kind of an accept is the earliest kind of the priority
\* order whose result list for the previous word contains the candidate; when
\* the synonym list and the trigger list both contain it, the kind is rel_syn.
C5_EarliestKind ==
    (Done /\ result.valid) =>
        /\ Lists(result.relationType)
        /\ \A k \in Kinds : Lists(k) => PriorityOf(result.relationType) <= PriorityOf(k)
        /\ (Lists("rel_syn") /\ Lists("rel_trg")) => result.relationType = "rel_syn"

C5_Witness ==
    /\ Done
    /\ result.valid
    /\ Lists("rel_syn") /\ Lists("rel_trg")
    /\ result.relationType = "rel_syn"

-----------------------------------------------------------------------------
(* Properties of the creativity scorer (SpecStars) *)

Rated == stars # NotRated
CommonWord == frequency.n * 100 >= frequency.d
HeatIs(n) == heat = Rat(n, HeatUnit)

\* C6: for a word whose frequency is not below 0.01 the rating is 1 when
\* heat > 0.66, 2 when 0.40 <= heat <= 0.66 and 3 when heat < 0.40.
C6_RatingByHeat ==
    (Rated /\ CommonWord) =>
        /\ (heat.n * 100 > 66 * heat.d) => stars = 1
        /\ (heat.n * 100 >= 40 * heat.d /\ heat.n * 100 <= 66 * heat.d) => stars = 2
        /\ (heat.n * 100 < 40 * heat.d) => stars = 3

C6_Witness ==
    /\ Rated /\ CommonWord
    /\ HeatIs(6600000)
    /\ stars = 2

\* C7 as claimed: heat 0.6600000 is rated 1, 0.6599999 is rated 2, 0.40 is
\* rated 2 and 0.3999999 is rated 3 (frequency not below 0.01).
C7_BoundaryAsClaimed ==
    (Rated /\ CommonWord) =>
        /\ HeatIs(6600000) => stars = 1
        /\ HeatIs(6599999) => stars = 2
        /\ HeatIs(4000000) => stars = 2
        /\ HeatIs(3999999) => stars = 3

\* C7 amended: heat 0.6600000 is rated 2 (the comparison with 0.66 is
\* strict), 0.6599999 is rated 2, 0.40 is rated 2, 0.3999999 is rated 3,
\* and the first heat above 0.66 on the grid is rated 1.
C7_Boundary ==
    (Rated /\ CommonWord) =>
        /\ HeatIs(6600001) => stars = 1
        /\ HeatIs(6600000) => stars = 2
        /\ HeatIs(6599999) => stars = 2
        /\ HeatIs(4000000) => stars = 2
        /\ HeatIs(3999999) => stars = 3

C7_Witness ==
    /\ Rated /\ CommonWord
    /\ HeatIs(4000000)
    /\ stars = 2

\* the rating by the heat alone, as the claim states it
HeatRating ==
    IF heat.n * 100 > 66 * heat.d THEN 1
    ELSE IF heat.n * 100 >= 40 * heat.d THEN 2
    ELSE 3

\* C8: a heat rating of 3 becomes 2 when the frequency is below 0.01 and
\* stays 3 when it is 0.01 or more; ratings 1 and 2 do not depend on the
\* frequency; heat 0.10 gives 2 at frequency 0.005 and 3 at frequency 0.02.
C8_RarityClamp ==
    Rated =>
        /\ (HeatRating = 3 /\ ~CommonWord) => stars = 2
        /\ (HeatRating = 3 /\ CommonWord) => stars = 3
        /\ (HeatRating # 3) => stars = HeatRating
        /\ (HeatIs(1000000) /\ frequency = Rat(5, FrequencyUnit)) => stars = 2
        /\ (HeatIs(1000000) /\ frequency = Rat(20, FrequencyUnit)) => stars = 3

C8_Witness ==
    /\ Rated
    /\ HeatIs(1000000)
    /\ frequency = Rat(5, FrequencyUnit)
    /\ stars = 2

-----------------------------------------------------------------------------
(* Properties of the session scorer (SpecScore) *)

Scored == score # NoScore

\* twice max(0, effectiveSteps - totalStars / 2), an integer
TwiceExpectedScore ==
    IF 2 * (chainLength + penaltySteps) > totalStars
    THEN 2 * (chainLength + penaltySteps) - totalStars
    ELSE 0

\* C9: steps = chainLength, effectiveSteps = chainLength + hubPenaltyCount,
\* starBonus = totalStars * 0.5 and finalScore = max(0, effectiveSteps -
\* starBonus) as a number with one decimal place; (5, 1, 6) gives 6, 3.0, 3.0.
C9_ScoreFormula ==
    Scored =>
        /\ score.steps = chainLength
        /\ score.effectiveSteps = chainLength + penaltySteps
        /\ 2 * score.starBonus.n = totalStars * score.starBonus.d
        /\ 2 * score.finalScore.n = TwiceExpectedScore * score.finalScore.d
        /\ (10 * score.finalScore.n) % score.finalScore.d = 0
        /\ (chainLength = 5 /\ penaltySteps = 1 /\ totalStars = 6) =>
              /\ score.effectiveSteps = 6
              /\ RatEq(score.starBonus, Num(3))
              /\ RatEq(score.finalScore, Num(3))

C9_Witness ==
    /\ Scored
    /\ chainLength = 5 /\ penaltySteps = 1 /\ totalStars = 6
    /\ RatEq(score.finalScore, Num(3))

\* C10: the final score is never negative, and it is 0 whenever
\* effectiveSteps < starBonus.
C10_ScoreNeverNegative ==
    Scored =>
        /\ score.finalScore.n * score.finalScore.d >= 0
        /\ (2 * score.effectiveSteps < totalStars) => score.finalScore.n = 0

C10_Witness ==
    /\ Scored
    /\ 2 * score.effectiveSteps < totalStars
    /\ score.finalScore.n = 0

-----------------------------------------------------------------------------
(* Properties of the accept value (SpecLists, SpecCall) *)

Accepted == Done /\ result.valid

\* the result list of the relation the call accepted under, the position of
\* its first entry for the candidate, and the scores the heat is taken from
MatchedList == db[RelationRequest(result.relationType)]
MatchIndex ==
    CHOOSE i \in 1..Len(MatchedList) :
        /\ LowerCased(MatchedList[i].word) = Canonical(inputWord)
        /\ \A j \in 1..(i - 1) : LowerCased(MatchedList[j].word) # Canonical(inputWord)
MatchScore == MatchedList[MatchIndex].score
TopScore == MatchedList[1].score

\* C15: every ValidAccept carries a creativity rating in {1, 2, 3}, whatever
\* the scores of the result list and whatever the frequency metadata (a
\* frequency, none, or one that is not a number).
C15_RatingInRange ==
    Accepted => result.creativityStars \in {1, 2, 3}

C15_Witness ==
    /\ Accepted
    /\ MatchScore = 0
    /\ db[WordRequest][1].tags = << <<JunkFrequencyTag>> >>
    /\ result.creativityStars = 2

\* C16 as claimed: every ValidAccept carries a heat in (0, 1] that equals the
\* match's score divided by the top score of the same list, for every
\* best-first list, lists whose scores are 0 included.
C16_HeatAsClaimed ==
    Accepted =>
        /\ TopScore # 0
        /\ result.heat.n * TopScore = MatchScore * result.heat.d
        /\ result.heat.n > 0
        /\ result.heat.n <= result.heat.d

\* C16 amended: every ValidAccept carries a heat in [0, 1]; when the match's
\* score is positive the heat is in (0, 1] and equals the match's score
\* divided by the top score of the same list; when the match's score is 0
\* the heat is 0 (a top score of 0 is replaced by 1 before the division).
C16_Heat ==
    Accepted =>
        /\ result.heat.d > 0
        /\ result.heat.n >= 0
        /\ result.heat.n <= result.heat.d
        /\ MatchScore > 0 =>
              /\ TopScore > 0
              /\ result.heat.n * TopScore = MatchScore * result.heat.d
              /\ result.heat.n > 0
        /\ MatchScore = 0 => result.heat.n = 0
        /\ TopScore = 0 => result.heat = Rat(0, 1)

C16_Witness ==
    /\ Accepted
    /\ Len(MatchedList) = 2
    /\ TopScore = 0
    /\ MatchIndex = 2
    /\ result.heat = Rat(0, 1)

\* the fixed hub set
HubSet ==
    { <<"t", "h", "i", "n", "g">>, <<"g", "o", "o", "d">>, <<"m", "a", "n">>,
      <<"t", "i", "m", "e">>, <<"w", "o", "r", "l", "d">>, <<"g", "o">>,
      <<"g", "e", "t">> }

\* the data source knows the candidate and the word-existence request has
\* not failed
Verified ==
    /\ ~Failed(WordRequest)
    /\ \E i \in 1..Len(db[WordRequest]) :
          LowerCased(db[WordRequest][i].word) = Canonical(inputWord)

\* the candidate is neither the previous word nor a used word
NotRepeated ==
    /\ Canonical(inputWord) # Canonical(previousWord)
    /\ \A i \in 1..Len(usedWords) : Canonical(inputWord) # LowerCased(usedWords[i])

\* C17: a candidate of the hub set that is verified, is neither the previous
\* word nor used, and is listed under some relation is accepted with the hub
\* flag true; on every accept the flag is true exactly when the lower-cased,
\* trimmed candidate is in the hub set.
C17_HubWordAccepted ==
    Done =>
        /\ ( /\ Canonical(inputWord) \in HubSet
             /\ Verified
             /\ NotRepeated
             /\ \E k \in Kinds : Lists(k) ) => (result.valid /\ result.isHubWord)
        /\ result.valid => (result.isHubWord <=> Canonical(inputWord) \in HubSet)

C17_Witness ==
    /\ Accepted
    /\ inputWord = Padded(Go)
    /\ usedWords = <<Og, Capitalized(Og)>>
    /\ result.isHubWord

\* the spelling the data source gives to the candidate: the word of the first
\* entry of its answer that equals the candidate when lower-cased
SourceSpelling ==
    LET answer == db[WordRequest]
        first == CHOOSE i \in 1..Len(answer) :
                    /\ LowerCased(answer[i].word) = Canonical(inputWord)
                    /\ \A j \in 1..(i - 1) : LowerCased(answer[j].word) # Canonical(inputWord)
    IN  answer[first].word

\* C18 as claimed: a ValidAccept carries the data source's spelling of the
\* word, and that spelling equals the candidate after lower-casing; every
\* Reject carries the candidate as given.
C18_WordAsClaimed ==
    Done =>
        IF result.valid
        THEN /\ result.word = SourceSpelling
             /\ result.word = LowerCased(inputWord)
        ELSE result.word = inputWord

\* C18 amended: a ValidAccept carries the data source's spelling of the
\* word, which equals the candidate when both are lower-cased and the
\* candidate is trimmed (it may differ from the candidate in case and in the
\* blanks around it); every Reject carries the candidate as given.
C18_Word ==
    Done =>
        IF result.valid
        THEN /\ result.word = SourceSpelling
             /\ LowerCased(result.word) = Canonical(inputWord)
        ELSE result.word = inputWord

C18_Witness ==
    /\ Accepted
    /\ inputWord = Padded(Go)
    /\ result.word = Capitalized(Go)

-----------------------------------------------------------------------------
(* Properties of getMostCreativeLink (SpecCreative) *)

\* the highest rating of the chain
TopRating ==
    CHOOSE r \in 1..3 :
        /\ \E i \in 1..Len(store.chain) : store.chain[i].creativityStars = r
        /\ \A i \in 1..Len(store.chain) : store.chain[i].creativityStars <= r

\* C14: for an empty chain the most creative link is none; for a non-empty
\* chain it is a link of the chain whose rating is the highest of the chain
\* and whose heat is the lowest among the links with that rating.
C14_MostCreative ==
    bestLink.asked =>
        IF store.chain = <<>> THEN bestLink.link = <<>>
        ELSE /\ Len(bestLink.link) = 1
             /\ \E i \in 1..Len(store.chain) : store.chain[i] = bestLink.link[1]
             /\ bestLink.link[1].creativityStars = TopRating
             /\ \A i \in 1..Len(store.chain) :
                   store.chain[i].creativityStars = TopRating =>
                       RatLE(bestLink.link[1].heat, store.chain[i].heat)

C14_Witness ==
    /\ bestLink.asked
    /\ Len(store.chain) = 3
    /\ store.chain[1].creativityStars = 1
    /\ store.chain[2].creativityStars = 3
    /\ store.chain[3].creativityStars = 3
    /\ RatLT(store.chain[3].heat, store.chain[2].heat)
    /\ bestLink.link = <<store.chain[3]>>

-----------------------------------------------------------------------------
(* Properties of the game (SpecGame) *)

\* the start word and the words of the chain, in order
ChainWithStart == <<store.startWord>> \o [i \in 1..Len(store.chain) |-> store.chain[i].word]

\* C12: in every state of the game the start word and the words of the
\* chain are pairwise distinct when compared case-insensitively.
C12_ChainWordsDistinct ==
    \A i, j \in 1..Len(ChainWithStart) :
        i # j => LowerCased(ChainWithStart[i]) # LowerCased(ChainWithStart[j])

\* C13: every link of the chain was accepted by a validation whose previous
\* word is the word just before the link in the chain, the start word for
\* the first link; also when a new game has been started or the mode has
\* been changed while the validation was in flight, so that the result of a
\* validation for an abandoned chain is never appended to the new chain.
C13_LinksValidatedInPlace ==
    /\ Len(provenance) = Len(store.chain)
    /\ \A i \in 1..Len(store.chain) : provenance[i] = ChainWithStart[i]

\* a step of validateLink: its call in handleSubmit, or the arrival of the
\* answer (or of the failure) of the request it waits for
CallStep == ~page.isValidating /\ page.isValidating'
AnswerStep == pc = "fetch" /\ responses' # responses

\* C19: no step of a validateLink call changes the game state: the chain,
\* the penalty counter, the status and every other field of the store stay
\* as they are, and so does the used-word list passed in; but for the call's
\* own progress the only state a step changes is the response cache.
C19_ValidationFrame ==
    [][ /\ (CallStep \/ AnswerStep) =>
              /\ store' = store
              /\ linkupDay' = linkupDay
              /\ provenance' = provenance
        /\ AnswerStep =>
              /\ usedWords' = usedWords
              /\ previousWord' = previousWord
              /\ inputWord' = inputWord
              /\ page' = page
              /\ db' = db
              /\ now' = now ]_vars

\* a validateLink call has filled the cache and returned an accept, and the
\* game is as it was when the call was made
C19_Witness ==
    /\ Unsettled
    /\ result.valid
    /\ cache # <<>>
    /\ store.chain = <<>>
    /\ store.penaltySteps = 0
    /\ store.status = "playing"
    /\ usedWords = <<store.startWord>>

-----------------------------------------------------------------------------
(* Properties of the repeated call (SpecRepeat) *)

\* two results agree in what the claim lists: accept or reject, reason,
\* kind, heat, stars and hub flag
SameOutcome(a, b) ==
    /\ a.valid = b.valid
    /\ a.valid =>
          /\ a.relationType = b.relationType
          /\ RatEq(a.heat, b.heat)
          /\ a.creativityStars = b.creativityStars
          /\ a.isHubWord = b.isHubWord
    /\ ~a.valid => a.reason = b.reason

Repeated == Done /\ returned.results # <<>>

CacheWasCurrent ==
    \A url \in DOMAIN returned.cache :
        (0 - returned.cache[url].timestamp < 30 * 60 * 1000) =>
            returned.cache[url].data = db[url]

-----------------------------------------------------------------------------
(* Properties of the response cache (SpecCache) *)

\* the i-th call has returned the data of an entry that the answered request
\* of another call for the same query has made less than 30 minutes before
FromUnexpiredEntry(i) ==
    \E j \in 1..Len(lookups) :
        /\ j # i
        /\ lookups[j].query = lookups[i].query
        /\ lookups[j].body = <<lookups[i].data>>
        /\ lookups[i].now - lookups[j].now < 30 * 60 * 1000

\* the i-th call has returned the answer to its own request, empty when the
\* request has failed
FromOwnRequest(i) ==
    \/ lookups[i].body = <<lookups[i].data>>
    \/ lookups[i].failed /\ lookups[i].data = <<>>

\* C20: in every interleaving of cachedFetch calls for the same or for
\* different queries, a call that has returned has returned the data of an
\* unexpired cache entry for its own query or the answer to its own request
\* (empty when the request failed); what it returns is never the answer to
\* another query.
C20_LookupsSafe ==
    \A i \in 1..Len(lookups) :
        ~lookups[i].waiting =>
            /\ FromUnexpiredEntry(i) \/ FromOwnRequest(i)
            /\ lookups[i].data \in Answers(lookups[i].query) \cup {<<>>}

\* two calls for one query and a call for another query are in flight
\* together; a later call for the first query returns the cached answer
C20_Witness ==
    /\ Len(lookups) = 3
    /\ lookups[1].query = lookups[3].query
    /\ lookups[1].query.word # lookups[2].query.word
    /\ lookups[1].query.kind = lookups[2].query.kind
    /\ lookups[2].body # <<>>
    /\ lookups[2].now = lookups[1].now
    /\ lookups[3].hit
    /\ lookups[3].data = lookups[1].body[1]

-----------------------------------------------------------------------------
(* Properties of the used-word check (SpecCall) *)

\* C21: a candidate that equals some used word after lower-casing and
\* trimming both words, and is not the previous word, is rejected with
\* already_used, also when the used word is stored with blanks around it.
C21_UsedWordsTrimmed ==
    ( /\ Done
      /\ Canonical(inputWord) # Canonical(previousWord)
      /\ \E i \in 1..Len(usedWords) : Canonical(inputWord) = Canonical(usedWords[i]) ) =>
        (~result.valid /\ result.reason = "already_used")

-----------------------------------------------------------------------------
(* Properties of the pipeline of one call (SpecResolve) *)

Answered(url) == \E i \in 1..Len(responses) : responses[i].url = url
IsRelationRequest(url) == url[1] # "sp"

\* the word-existence request has been answered or has failed, and the
\* answer does not hold the candidate
NotVerified ==
    /\ Answered(WordRequest)
    /\ \/ Failed(WordRequest)
       \/ \A i \in 1..Len(db[WordRequest]) :
             LowerCased(db[WordRequest][i].word) # Canonical(inputWord)

\* C22: inside one validateLink call the word-existence request is issued
\* before any relation request: the first request of the call is the
\* word-existence request and there is no other one; and when the candidate is
\* not verified the call returns Reject(not_a_word) having issued no relation
\* request.
C22_VerifyBeforeRelations ==
    /\ requests # <<>> => requests[1] = WordRequest
    /\ \A i \in 2..Len(requests) : IsRelationRequest(requests[i])
    /\ NotVerified =>
          /\ Done
          /\ ~result.valid
          /\ result.reason = "not_a_word"
          /\ requests = <<WordRequest>>

C22_Witness ==
    /\ Done
    /\ NotVerified
    /\ ~Failed(WordRequest)
    /\ db[WordRequest] # <<>>
    /\ \E i \in 1..Len(db[RelationRequest("rel_syn")]) :
          db[RelationRequest("rel_syn")][i].word = Canonical(inputWord)
    /\ result.reason = "not_a_word"
    /\ requests = <<WordRequest>>

\* the relation requests of the call, in the order they were issued
RelationRequests == SelectSeq(requests, IsRelationRequest)

\* kind k was queried, and its list, which has arrived, holds the candidate
Matched(k) == Answered(RelationRequest(k)) /\ Lists(k)

\* C23: the resolver queries the relation kinds one at a time in priority
\* order and stops at the first match: the i-th relation request is the one
\* for the i-th kind, a request goes out only when every earlier one has been
\* answered, no kind after a matched one is queried, and when the call has
\* returned and the first matching kind is the k-th, exactly the kinds 1..k
\* were queried, each once.
C23_OneAtATimeUntilMatch ==
    LET queried == Len(RelationRequests)
        matched == {k \in Kinds : Matched(k)}
        listing == {k \in Kinds : Lists(k)}
    IN  /\ \A i \in 1..queried :
              \E k \in Kinds : PriorityOf(k) = i /\ RelationRequests[i] = RelationRequest(k)
        /\ Len(requests) - Len(responses) \in {0, 1}
        /\ pc = "fetch" <=> Len(requests) = Len(responses) + 1
        /\ \A k \in matched : queried <= PriorityOf(k)
        /\ (Done /\ queried > 0) =>
              \A k \in listing :
                  (\A j \in listing : PriorityOf(k) <= PriorityOf(j)) =>
                      queried = PriorityOf(k)

C23_Witness ==
    /\ Done
    /\ result.valid
    /\ ~Lists("rel_syn") /\ ~Lists("rel_trg")
    /\ Lists("rel_jja") /\ Lists("rel_jjb") /\ Lists("rel_cns")
    /\ requests = <<WordRequest, RelationRequest("rel_syn"), RelationRequest("rel_trg"),
                    RelationRequest("rel_jja")>>

AllKindsQueried ==
    RelationRequests = [i \in 1..7 |-> RelationRequest(CHOOSE k \in Kinds : PriorityOf(k) = i)]

\* the answer to the request for kind k has arrived and is the empty list
EmptyList(k) ==
    /\ Answered(RelationRequest(k))
    /\ ~Failed(RelationRequest(k))
    /\ db[RelationRequest(k)] = <<>>

\* C24: when the candidate, a verified word, is in no kind's result list
\* (empty lists included), the call returns Reject(no_connection), and it
\* returns no_connection only after having queried all seven kinds; a kind
\* whose list is empty is never the last kind queried unless it is the seventh.
C24_NoConnectionAfterAllKinds ==
    Done =>
        /\ (RelationRequests # <<>> /\ \A k \in Kinds : ~Lists(k)) =>
              (~result.valid /\ result.reason = "no_connection")
        /\ (~result.valid /\ result.reason = "no_connection") =>
              (AllKindsQueried /\ \A k \in Kinds : ~Lists(k))
        /\ \A k \in Kinds :
              EmptyList(k) =>
                  \/ Len(RelationRequests) > PriorityOf(k)
                  \/ PriorityOf(k) = 7 /\ ~result.valid /\ result.reason = "no_connection"

C24_Witness ==
    /\ Done
    /\ ~result.valid
    /\ result.reason = "no_connection"
    /\ EmptyList("rel_syn") /\ EmptyList("rel_cns")
    /\ \A i \in 1..Len(responses) : responses[i].ok
    /\ Len(requests) = 8

\* C25: a failed relation request for one kind does not abort the
\* resolution: the call does not raise, the request for the following kind
\* has been issued, and the call returns what it returns when the list of the
\* failed kind is empty: the accept under the earliest kind whose request
\* did not fail and whose list holds the candidate, and no_connection after
\* all seven kinds when there is none.
C25_FailedKindIsSkipped ==
    LET failed == {k \in Kinds : Failed(RelationRequest(k))}
        listing == {k \in Kinds : Lists(k)}
        queried == Len(RelationRequests)
    IN  failed # {} =>
            /\ result # Thrown
            /\ \A k \in failed : PriorityOf(k) < 7 => queried > PriorityOf(k)
            /\ Done =>
                  IF listing = {}
                  THEN ~result.valid /\ result.reason = "no_connection" /\ AllKindsQueried
                  ELSE /\ result.valid
                       /\ result.relationType \in listing
                       /\ \A j \in listing :
                             PriorityOf(result.relationType) <= PriorityOf(j)

C25_Witness ==
    /\ Done
    /\ Failed(RelationRequest("rel_syn"))
    /\ \E i \in 1..Len(db[RelationRequest("rel_syn")]) :
          db[RelationRequest("rel_syn")][i].word = Canonical(inputWord)
    /\ ~Failed(RelationRequest("rel_trg"))
    /\ result.valid
    /\ result.relationType = "rel_trg"

-----------------------------------------------------------------------------
(* Properties of the response cache around failures and expiry (SpecExpiry) *)

\* the steps of the i-th cachedFetch call: its request fails, its request is
\* answered; and the step in which a new call is made
LookupFails(i) == lookups[i].waiting /\ lookups'[i].failed
LookupSucceeds(i) == lookups[i].waiting /\ lookups'[i].body # <<>>
LookupMade == Len(lookups') = Len(lookups) + 1
NewLookup == lookups'[Len(lookups')]

\* the age of the entry for url at time t is below 30 minutes
Fresh(c, url, t) == url \in DOMAIN c /\ t - c[url].timestamp < 30 * 60 * 1000

\* C26: a failed request is never stored in the cache: the step in which a
\* request fails leaves the cache as it is, every entry of the cache is the
\* body of an answered request for its query, and a lookup whose query has
\* had no answered request so far issues a request.  A successful response,
\* the empty list included, is stored under its query in the step in which
\* it arrives, and a lookup that finds a stored response younger than the
\* time-to-live returns it without a request.
C26_FailuresNotCached ==
    [][ /\ \A i \in 1..Len(lookups) :
              /\ LookupFails(i) => cache' = cache
              /\ LookupSucceeds(i) =>
                    /\ lookups[i].url \in DOMAIN cache'
                    /\ cache'[lookups[i].url].data = lookups'[i].body[1]
        /\ \A url \in DOMAIN cache' :
              \E i \in 1..Len(lookups') :
                  /\ lookups'[i].url = url
                  /\ ~lookups'[i].failed
                  /\ lookups'[i].body = <<cache'[url].data>>
        /\ LookupMade =>
              /\ (\A i \in 1..Len(lookups) :
                     lookups[i].url = NewLookup.url => lookups[i].body = <<>>) =>
                    (NewLookup.waiting /\ ~NewLookup.hit)
              /\ Fresh(cache, NewLookup.url, now) =>
                    /\ ~NewLookup.waiting
                    /\ NewLookup.hit
                    /\ NewLookup.data = cache[NewLookup.url].data
      ]_vars

\* the request of the first lookup fails, the second lookup of the same
\* query issues a request that is answered with the empty list, and the
\* third lookup is served the empty list from the cache
C26_Witness ==
    /\ Len(lookups) = 3
    /\ lookups[1].query = lookups[2].query
    /\ lookups[2].query = lookups[3].query
    /\ lookups[1].failed
    /\ ~lookups[2].hit
    /\ lookups[2].body = << <<>> >>
    /\ lookups[3].hit
    /\ lookups[3].data = <<>>
    /\ ~lookups[3].waiting

\* C27: a lookup is answered from the cache without a request exactly when
\* the cache holds an entry for its query whose age is strictly less than 30
\* minutes, and then it returns the data of that entry; at an age of 30
\* minutes or more a request is issued, its answer replaces the data of the
\* entry and is returned, and when it fails the lookup returns the empty list
\* and the expired entry stays as it is.
C27_StalenessWindow ==
    [][ /\ LookupMade =>
              /\ ~NewLookup.waiting <=> Fresh(cache, NewLookup.url, now)
              /\ NewLookup.hit <=> ~NewLookup.waiting
              /\ NewLookup.hit => NewLookup.data = cache[NewLookup.url].data
              /\ lookups' = Append(lookups, NewLookup)
        /\ \A i \in 1..Len(lookups) :
              /\ LookupSucceeds(i) =>
                    /\ cache'[lookups[i].url].data = lookups'[i].body[1]
                    /\ lookups'[i].data = lookups'[i].body[1]
              /\ LookupFails(i) =>
                    /\ lookups'[i].data = <<>>
                    /\ cache' = cache
      ]_vars

\* an entry made at time 0 is served at 30 minutes less one millisecond; at 30
\* minutes a request is issued, fails, and the lookup returns the empty list
\* while the cache still holds the expired, non-empty data
C27_Witness ==
    /\ Len(lookups) = 3
    /\ lookups[1].query = lookups[2].query
    /\ lookups[2].query = lookups[3].query
    /\ lookups[1].now = 0
    /\ lookups[1].body # <<>>
    /\ lookups[2].now = 30 * 60 * 1000 - 1
    /\ lookups[2].hit
    /\ lookups[2].data = lookups[1].body[1]
    /\ lookups[3].now = 30 * 60 * 1000
    /\ lookups[3].failed
    /\ lookups[3].data = <<>>
    /\ cache[lookups[3].url].data # <<>>
    /\ cache[lookups[3].url].timestamp = 0

-----------------------------------------------------------------------------
(* Properties of the frequency of the accepted word (SpecLists) *)

\* the entry of the word-existence answer that verified the candidate
VerifiedEntry ==
    LET answer == db[WordRequest]
        i == CHOOSE i \in 1..Len(answer) :
                 /\ LowerCased(answer[i].word) = Canonical(inputWord)
                 /\ \A j \in 1..(i - 1) : LowerCased(answer[j].word) # Canonical(inputWord)
    IN  answer[i]

IsFrequencyTag(t) == t.prefix = "f:"

\* the entry has no tags, no frequency tag among its tags, or a first
\* frequency tag whose text is not a number
NoUsableFrequency(e) ==
    \/ e.tags = <<>>
    \/ LET frequencyTags == SelectSeq(e.tags[1], IsFrequencyTag)
       IN  frequencyTags = <<>> \/ ~frequencyTags[1].rest.numeric

\* C28: when the verified word has no frequency metadata or one that is not
\* a number, the accept carries the frequency 0 and its rating is never 3,
\* however low the heat.
C28_NoFrequencyNoThreeStars ==
    (Accepted /\ NoUsableFrequency(VerifiedEntry)) =>
        /\ result.frequency.n = 0
        /\ result.creativityStars # 3

C28_Witness ==
    /\ Accepted
    /\ VerifiedEntry.tags = << <<PronunciationTag>> >>
    /\ MatchScore * 100 < 40 * TopScore
    /\ MatchScore > 0
    /\ result.frequency.n = 0
    /\ result.creativityStars = 2

-----------------------------------------------------------------------------
(* Properties of handleSubmit (SpecGame) *)

\* the steps of handleSubmit: it starts a validation, it returns early, its
\* continuation runs after validateLink has returned
SubmitStarts == page'.inFlight = page.inFlight + 1
SubmitIgnored == ~page.ignored /\ page'.ignored
SubmitSettles == Unsettled /\ page'.inFlight = page.inFlight - 1

ValidationOutstanding == pc # "done" \/ page.isValidating

\* C29: the page never has two validations in flight: a submission starts a
\* validation only when none is outstanding, the status is playing and the
\* input is not blank, and a submission that starts none changes no state of
\* the game, of the page or of the validation.
C29_OneValidationInFlight ==
    [][ /\ page'.inFlight \in {0, 1}
        /\ page'.inFlight = 1 <=> page'.isValidating
        /\ pc' # "done" => page'.isValidating
        /\ SubmitStarts =>
              /\ ~ValidationOutstanding
              /\ store.status = "playing"
              /\ Canonical(page'.value) # <<>>
        /\ SubmitIgnored =>
              /\ page' = [page EXCEPT !.ignored = TRUE]
              /\ UNCHANGED <<store, linkupDay, provenance, callVars>>
      ]_vars

\* a submission has been ignored while a validation is waiting for the data
\* source
C29_Witness ==
    /\ page.ignored
    /\ page.inFlight = 1
    /\ pc = "fetch"
    /\ Len(requests) = 2
    /\ store.status = "playing"

\* C30: the continuation of a rejected submission leaves the chain, the
\* penalty counter, the status and every other field of the store unchanged
\* but the recorded failed attempt, which it sets to the submitted word; the
\* continuation of an accepted submission appends exactly one link, the one
\* for the accepted word, to the end of the chain and clears the recorded
\* failure.
C30_SubmissionEffect ==
    [][ SubmitSettles =>
          IF result.valid
          THEN /\ Len(store'.chain) = Len(store.chain) + 1
               /\ SubSeq(store'.chain, 1, Len(store.chain)) = store.chain
               /\ store'.chain[Len(store'.chain)].word = result.word
               /\ store'.lastFailedAttempt = <<>>
          ELSE /\ store'.chain = store.chain
               /\ store'.penaltySteps = store.penaltySteps
               /\ store'.status = store.status
               /\ store'.lastFailedAttempt # <<>>
               /\ store'.lastFailedAttempt[1].word = page.word
               /\ store' = [store EXCEPT !.lastFailedAttempt = store'.lastFailedAttempt]
      ]_vars

\* a submission has been rejected and has recorded its word, and the next
\* one has been accepted: the chain holds its link and no failure is recorded
C30_Witness ==
    /\ page.inFlight = 0
    /\ result.valid
    /\ page.word # <<>>
    /\ Len(store.chain) = 1
    /\ store.chain[1].word = result.word
    /\ store.lastFailedAttempt = <<>>
    /\ verifyUrl(Oo) \in DOMAIN cache
    /\ page.error = <<>>

-----------------------------------------------------------------------------
(* Properties of the store under the page (SpecGame) *)

\* the last link of the chain is the end word, compared case-insensitively
LastLinkIsEndWord ==
    /\ store.chain # <<>>
    /\ LowerCased(store.chain[Len(store.chain)].word) = LowerCased(store.endWord)

\* C32: the status is won exactly when the last link of the chain equals the
\* end word case-insensitively; in a state with status playing the last
\* word of the chain differs from the end word, also after the page has been
\* loaded again on a finished daily game and initGame has been called again
\* for the same day and start word.
C32_WonIffEndWordReached ==
    /\ store.status = "won" => LastLinkIsEndWord
    /\ store.status = "playing" => ~LastLinkIsEndWord

-----------------------------------------------------------------------------
(* Properties of the store alone (SpecStore) *)

HubLinks == {i \in 1..Len(store.chain) : store.chain[i].isHubWord}

\* C31: in every state of the store the penalty counter equals the number
\* of links of the current chain whose hub flag is true, after any sequence
\* of accepted links, rejections, initialisations, resets and reloads of the
\* persisted state.
C31_PenaltyCountsHubLinks ==
    store.penaltySteps = Cardinality(HubLinks)

\* a chain with two hub links and one other link, in a store that has been
\* through a finished endless game and a daily initialisation
C31_Witness ==
    /\ Len(store.chain) = 3
    /\ HubLinks = {1, 3}
    /\ store.penaltySteps = 2
    /\ store.endlessGamesPlayed = 1
    /\ store.mode = "daily"
    /\ linkupDay # <<>>
    /\ store.lastFailedAttempt # <<>>

-----------------------------------------------------------------------------
(* Properties of a round of play under fair scheduling (SpecSubmitFair) *)

WordRequests == SelectSeq(requests, LAMBDA url : url[1] = "sp")

\* C33: every submission that starts a validation ends it: when every
\* request is eventually answered or fails, the validating flag set by
\* handleSubmit is eventually cleared again, whatever validateLink returns,
\* and a validation sends at most one word-existence request and at most
\* seven relation requests.
C33_ValidationEnds ==
    /\ [](Len(WordRequests) <= 1 /\ Len(RelationRequests) <= 7)
    /\ page.isValidating ~> ~page.isValidating

\* a validation has ended after eight requests, with a reject, and the flag
\* is cleared
C33_Witness ==
    /\ ~page.isValidating
    /\ page.inFlight = 0
    /\ Len(requests) = 8
    /\ Len(responses) = 8
    /\ ~result.valid
    /\ result.reason = "no_connection"
    /\ store.lastFailedAttempt # <<>>

-----------------------------------------------------------------------------
(* Properties of the cache timestamps under overlapping requests (SpecExpiry) *)

\* no step replaces the entry of a query by an entry stamped earlier
TimestampsNeverMoveBack ==
    \A url \in DOMAIN cache :
        /\ url \in DOMAIN cache'
        /\ cache'[url].timestamp >= cache[url].timestamp

\* an entry is stamped no later than the moment its response is received, and
\* a lookup is served an entry only within the time-to-live after its stamp
ServedWithinTimeToLive ==
    /\ \A i \in 1..Len(lookups) :
          LookupSucceeds(i) => cache'[lookups[i].url].timestamp <= now
    /\ (LookupMade /\ NewLookup.hit) =>
          now - cache[NewLookup.url].timestamp < 30 * 60 * 1000

\* C34: the timestamp of the cache entry for a query never moves backwards:
\* when requests for the same query overlap, no step replaces the entry by
\* one stamped earlier; and no entry is served for longer than the
\* time-to-live after its response was received.
C34_TimestampMonotone ==
    [][TimestampsNeverMoveBack /\ ServedWithinTimeToLive]_vars

====
